---------------------------- MODULE Spec2Model ----------------------------
(***************************************************************************)
(* cgmsim-mobile: the glucose simulation engine (SimulationService), the   *)
(* SQLite persistence layer (DatabaseService) and the screens that drive   *)
(* them (HomeScreen, ChartScreen).                                         *)
(*                                                                         *)
(* Units.  Time is counted in whole minutes since the epoch (a JS Date).   *)
(* Glucose values and glucose deltas are fixed-point, in thousandths of a  *)
(* mg/dL.  Fractions (the absorption rate, the insulin activity, the       *)
(* noise value) are fixed-point in ten-thousandths.                        *)
(***************************************************************************)
EXTENDS Integers, Sequences, FiniteSets, TLC

\* thousandths of a mg/dL per mg/dL, ten-thousandths per unit fraction
Milli == 10 * 100
Frac == 100 * 100

\* an absent (NULL, undefined) number; a NaN of the noise library; an absent
\* string; a list element that is no object
Null == 0 - 1
NaN == 0 - 2
NoString == "null"
NotAnObject == [ type |-> "not-an-object" ]

Max(a, b) == IF a >= b THEN a ELSE b
Min(a, b) == IF a <= b THEN a ELSE b

\* JS `x || 0` on a nullable number
OrZero(x) == IF x = Null THEN 0 ELSE x

--------------------------------------------------------------------------
(* Dates.  Date.prototype.toISOString and new Date(isoString).             *)

MinutesPerDay == 24 * 60

\* "YYYY-MM-DDTHH:MM" as <<day, hour, minute>>; string order is tuple order
toISOString(t) ==
    << t \div MinutesPerDay, (t % MinutesPerDay) \div 60, t % 60 >>

\* new Date(iso).getTime()
parseISO(iso) == iso[1] * MinutesPerDay + iso[2] * 60 + iso[3]

\* string comparison a < b of two ISO timestamps
IsoLess(a, b) ==
    \/ a[1] < b[1]
    \/ a[1] = b[1] /\ a[2] < b[2]
    \/ a[1] = b[1] /\ a[2] = b[2] /\ a[3] < b[3]

\* SimulationService.getWeekStart: the date of the last Sunday 00:00
\* (day 0 of the epoch is a Thursday, getDay() = 4)
getWeekStart(t) ==
    LET day == t \div MinutesPerDay
    IN  day - ((day + 4) % 7)

--------------------------------------------------------------------------
(* The default patient.                                                    *)

DEFAULT_PATIENT ==
    [ id |-> "default-patient-001",
      insulinSensitivityFactor |-> 50,
      carbRatio |-> 15 ]

--------------------------------------------------------------------------
(* Effect models.  t is the elapsed time in minutes; results in Milli.     *)

RECURSIVE ExpTerms(_, _, _, _)
\* sum of the Taylor terms k..12 of exp(-x), x and the result in Frac
ExpTerms(x, k, term, sign) ==
    IF k > 12 \/ term = 0 THEN 0
    ELSE sign * term + ExpTerms(x, k + 1, (term * x) \div ((k + 1) * Frac), -sign)

\* Math.exp(-x) for x >= 0 in Frac
ExpNeg(x) == ExpTerms(x, 0, Frac, 1)

\* a faulty variant of calculateCarbEffect: absorption keeps rising after the peak
calculateCarbEffectRising(carbs, timeSinceEating, patient) ==
    LET peakTime == 60
        duration == 240
        maxEffect == (carbs * patient.insulinSensitivityFactor * Milli)
                         \div patient.carbRatio
    IN  IF timeSinceEating > duration THEN 0
        ELSE ((maxEffect * timeSinceEating) \div peakTime) \div 20

calculateCarbEffect(carbs, timeSinceEating, patient) ==
    LET peakTime == 60
        duration == 240
        maxEffect == (carbs * patient.insulinSensitivityFactor * Milli)
                         \div patient.carbRatio
    IN  IF timeSinceEating > duration THEN 0
        ELSE IF timeSinceEating <= peakTime
             THEN ((maxEffect * timeSinceEating) \div peakTime) \div 20
             ELSE ((maxEffect * (duration - timeSinceEating))
                       \div (duration - peakTime)) \div 20

calculateInsulinEffect(insulin, timeSinceInjection, patient, type) ==
    IF type = "rapid"
    THEN LET duration == 300
             \* 0.0173 * t with t = timeSinceInjection / 60 hours
             kt == (173 * timeSinceInjection) \div 60
             e == ExpNeg(kt)
             activity == (e * (Frac - e)) \div Frac
             maxEffect == insulin * patient.insulinSensitivityFactor * Milli
         IN  IF timeSinceInjection > duration THEN 0
             ELSE ((maxEffect \div 20) * activity) \div Frac
    ELSE LET duration == 1440
         IN  IF timeSinceInjection > duration THEN 0
             ELSE (insulin * patient.insulinSensitivityFactor * Milli)
                      \div (duration \div 5)

\* a faulty variant of calculateExerciseEffect: the residual effect does not decay
calculateExerciseEffectFlat(exerciseType, duration, timeSinceStart) ==
    LET intensity2 == CASE exerciseType = "light" -> 1
                        [] exerciseType = "moderate" -> 2
                        [] exerciseType = "intense" -> 4
                        [] OTHER -> 2
    IN  IF timeSinceStart > duration + 180 THEN 0
        ELSE IF timeSinceStart <= duration
             THEN (intensity2 * Milli) \div 4
             ELSE intensity2 * (Milli \div 10)

calculateExerciseEffect(exerciseType, duration, timeSinceStart) ==
    LET \* intensity in halves: light 0.5, moderate 1.0, intense 2.0
        intensity2 == CASE exerciseType = "light" -> 1
                        [] exerciseType = "moderate" -> 2
                        [] exerciseType = "intense" -> 4
                        [] OTHER -> 2
    IN  IF timeSinceStart > duration + 180 THEN 0
        ELSE IF timeSinceStart <= duration
             THEN (intensity2 * Milli) \div 4
             ELSE LET timeAfter == timeSinceStart - duration
                      residualEffect == ExpNeg((timeAfter * Frac) \div 120)
                  IN  (intensity2 * (Milli \div 10) * residualEffect) \div Frac


--------------------------------------------------------------------------
(* Curve calculator: simulateGlucoseProfile.                               *)

\* a faulty variant of TreatmentChange: treatments in the future are not skipped
TreatmentChangeUnguarded(treatment, currentTime, patient) ==
    LET timeSinceTreatment == currentTime - treatment.timestamp
    IN  CASE treatment.type = "meal" ->
               IF treatment.carbohydrates # 0 /\ timeSinceTreatment <= 240
               THEN calculateCarbEffect(treatment.carbohydrates,
                                        timeSinceTreatment, patient)
               ELSE 0
          [] treatment.type \in {"rapid_insulin", "correction"} ->
               IF treatment.insulin # 0 /\ timeSinceTreatment <= 300
               THEN - calculateInsulinEffect(treatment.insulin,
                            Max(0, timeSinceTreatment), patient, "rapid")
               ELSE 0
          [] treatment.type = "long_insulin" ->
               IF treatment.insulin # 0 /\ timeSinceTreatment <= 1440
               THEN - calculateInsulinEffect(treatment.insulin,
                            timeSinceTreatment, patient, "long")
               ELSE 0
          [] treatment.type = "exercise" ->
               IF treatment.exerciseDuration # 0
                  /\ timeSinceTreatment <= treatment.exerciseDuration + 180
               THEN - calculateExerciseEffect(
                          IF treatment.exerciseType = NoString
                          THEN "moderate" ELSE treatment.exerciseType,
                          treatment.exerciseDuration, timeSinceTreatment)
               ELSE 0
          [] OTHER -> 0

\* the body of treatments.forEach: what one treatment adds to glucoseChange
TreatmentChange(treatment, currentTime, patient) ==
    LET timeSinceTreatment == currentTime - treatment.timestamp
    IN  IF timeSinceTreatment >= 0
        THEN CASE treatment.type = "meal" ->
                    IF treatment.carbohydrates # 0 /\ timeSinceTreatment <= 240
                    THEN calculateCarbEffect(treatment.carbohydrates,
                                             timeSinceTreatment, patient)
                    ELSE 0
               [] treatment.type \in {"rapid_insulin", "correction"} ->
                    IF treatment.insulin # 0 /\ timeSinceTreatment <= 300
                    THEN - calculateInsulinEffect(treatment.insulin,
                                 timeSinceTreatment, patient, "rapid")
                    ELSE 0
               [] treatment.type = "long_insulin" ->
                    IF treatment.insulin # 0 /\ timeSinceTreatment <= 1440
                    THEN - calculateInsulinEffect(treatment.insulin,
                                 timeSinceTreatment, patient, "long")
                    ELSE 0
               [] treatment.type = "exercise" ->
                    IF treatment.exerciseDuration # 0
                       /\ timeSinceTreatment <= treatment.exerciseDuration + 180
                    THEN - calculateExerciseEffect(
                               IF treatment.exerciseType = NoString
                               THEN "moderate" ELSE treatment.exerciseType,
                               treatment.exerciseDuration, timeSinceTreatment)
                    ELSE 0
               [] OTHER -> 0
        ELSE 0

RECURSIVE SumChangesOncePerInstant(_, _, _, _)
\* a faulty variant of SumChanges: of the treatments with one timestamp only
\* the first in the list is applied
SumChangesOncePerInstant(treatments, k, currentTime, patient) ==
    IF k > Len(treatments) THEN 0
    ELSE (IF \E j \in 1..(k - 1) : treatments[j].timestamp = treatments[k].timestamp
          THEN 0
          ELSE TreatmentChange(treatments[k], currentTime, patient))
             + SumChangesOncePerInstant(treatments, k + 1, currentTime, patient)

RECURSIVE SumChanges(_, _, _, _)
\* treatments.forEach over the list from element k on
SumChanges(treatments, k, currentTime, patient) ==
    IF k > Len(treatments) THEN 0
    ELSE TreatmentChange(treatments[k], currentTime, patient)
             + SumChanges(treatments, k + 1, currentTime, patient)

\* a faulty variant of IntervalTime: the grid starts one interval late
IntervalTimeLate(options, i) == options.startTime + (i + 1) * options.intervalMinutes

\* intervals[i]: startTime + i * intervalMinutes minutes
IntervalTime(options, i) == options.startTime + i * options.intervalMinutes

\* a faulty variant of GlucoseChange: no drift towards the evening
GlucoseChangeNoDrift(options, i) ==
    SumChanges(options.treatments, 1, IntervalTime(options, i), options.patient)

\* one pass of the main loop: glucoseChange of grid point i
GlucoseChange(options, i) ==
    (2 * Milli) \div 12
        + SumChanges(options.treatments, 1, IntervalTime(options, i),
                     options.patient)

\* a faulty variant of LoopPass: the value carried to the next pass is not clamped
LoopPassUnclamped(options, results) ==
    LET i == Len(results)
        currentTime == IntervalTime(options, i)
        currentGlucose == IF i = 0 THEN options.baselineGlucose * Milli
                          ELSE results[i].glucoseValue
        next == currentGlucose + GlucoseChange(options, i)
    IN  Append(results, [ timestamp |-> currentTime, glucoseValue |-> next ])

\* one pass of the main loop: grid point i = Len(results); currentGlucose is
\* the value pushed by the pass before (the baseline on the first pass)
LoopPass(options, results) ==
    LET i == Len(results)
        currentTime == IntervalTime(options, i)
        currentGlucose == IF i = 0 THEN options.baselineGlucose * Milli
                          ELSE results[i].glucoseValue
        next == Max(40 * Milli,
                    Min(400 * Milli, currentGlucose + GlucoseChange(options, i)))
    IN  Append(results, [ timestamp |-> currentTime, glucoseValue |-> next ])

RECURSIVE LoopPasses(_, _, _)
\* n consecutive passes of the loop.  The passes are split in halves and the
\* first half is evaluated (Len) before the second starts, which keeps the
\* evaluation depth logarithmic in n; the result is that of n passes in order.
LoopPasses(options, n, results) ==
    IF n = 0 THEN results
    ELSE IF n = 1 THEN LoopPass(options, results)
    ELSE LET firstHalf == LoopPasses(options, n \div 2, results)
         IN  IF Len(firstHalf) >= 0
             THEN LoopPasses(options, n - n \div 2, firstHalf)
             ELSE firstHalf

\* for (i = 0; i <= (durationHours * 60) / intervalMinutes; i++)
simulateGlucoseProfile(options) ==
    LoopPasses(options,
               (options.durationHours * 60) \div options.intervalMinutes + 1,
               << >>)

--------------------------------------------------------------------------
(* Noise generator.                                                        *)

NoiseLength == 2016

\* the library call raising instead of returning an array
Throws == 0 - 1

\* perlin.generatePerlinNoise(2016, 1, ...): the library returns 2016 values
\* in [0, 1] that depend only on the draws of its random source; draw names
\* one outcome of those draws.  Values in Milli.  Draw 0 runs through the
\* range and holds NaN entries, draw 1 is 1.0 throughout.
generatePerlinNoise(draw) ==
    [ i \in 1..NoiseLength |->
        CASE draw = 0 -> IF i % 3 = 0 THEN NaN
                         ELSE IF i % 3 = 1 THEN 0
                         ELSE (i * 37) % (Milli + 1)
          [] draw = 1 -> Milli
          [] OTHER -> (i * 37 * draw + 11 * draw) % (Milli + 1) ]

\* generateWeeklyNoise(patientId, weekStart) with the default amplitude,
\* octaves and persistence; noise is what the library call returned.
\* Results in Frac: noise[i] / 10 - 0.05, one for each of the 2016 entries
\* of noise (noise.length, and so noiseArray.length, is NoiseLength)
generateWeeklyNoise(patientId, weekStart, noise) ==
    [ i \in 1..NoiseLength |->
        IF noise[i] = NaN THEN 0 ELSE noise[i] - (5 * Frac) \div 100 ]

--------------------------------------------------------------------------
(* Fallback generator.                                                     *)

Pi == 31416

RECURSIVE SinTerms(_, _, _, _)
\* Taylor terms of sin x from x^k / k! on, x in Frac
SinTerms(x, k, term, sign) ==
    IF k > 11 \/ term = 0 THEN 0
    ELSE sign * term
           + SinTerms(x, k + 2,
                      (((term * x) \div Frac) * x) \div (Frac * (k + 1) * (k + 2)),
                      -sign)

\* Math.sin(x) for 0 <= x <= 2 * Pi, x and the result in Frac
Sin(x) ==
    IF 2 * x <= Pi THEN SinTerms(x, 1, x, 1)
    ELSE IF x <= Pi THEN SinTerms(Pi - x, 1, Pi - x, 1)
    ELSE IF 2 * x <= 3 * Pi THEN - SinTerms(x - Pi, 1, x - Pi, 1)
    ELSE - SinTerms(2 * Pi - x, 1, 2 * Pi - x, 1)

FallbackPoints == 288

\* body of the fallback loop for index i (0-based)
FallbackReading(patient, startTime, noiseArray, i) ==
    LET timestamp == startTime + i * 5
        \* hours * 2 * PI / 24 with hours = i * (5 / 60)
        angle == (i * 5 * 2 * Pi) \div (60 * 24)
        baseGlucose == 120 * Milli + (30 * Milli * Sin(angle)) \div Frac
        noiseValue == noiseArray[(i % NoiseLength) + 1]
        noisyGlucose == baseGlucose + (baseGlucose * noiseValue) \div Frac
    IN  [ id |-> << patient.id, toISOString(timestamp) >>,
          patientId |-> patient.id,
          timestamp |-> toISOString(timestamp),
          glucoseValue |-> Max(70 * Milli, Min(200 * Milli, noisyGlucose)),
          isPredicted |-> TRUE,
          calculationTimestamp |-> toISOString(startTime) ]

\* generateFallbackGlucoseCurve(patient) run at clock value now
generateFallbackGlucoseCurve(patient, now, noise) ==
    LET noiseArray == generateWeeklyNoise(patient.id, getWeekStart(now), noise)
    IN  [ k \in 1..FallbackPoints |->
            FallbackReading(patient, now, noiseArray, k - 1) ]

--------------------------------------------------------------------------
(* Simulation facade: calculateGlucoseCurve.                               *)

\* treatments.map(t => ({...})): a stored Treatment to a CGMSimTreatment
ConvertTreatment(t) ==
    [ timestamp |-> parseISO(t.timestamp),
      type |-> t.type,
      carbohydrates |-> OrZero(t.carbohydrates),
      insulin |-> OrZero(t.rapidInsulin) + OrZero(t.longInsulin),
      exerciseType |-> t.exerciseType,
      exerciseDuration |-> OrZero(t.exerciseDuration) ]

\* a faulty variant of ApplyNoise: the noisy value is not clamped again
ApplyNoiseUnclamped(glucoseValue, noiseValue) ==
    glucoseValue + (glucoseValue * noiseValue) \div Frac

\* noisyGlucose = value + value * noiseValue, clamped to [40, 400]
ApplyNoise(glucoseValue, noiseValue) ==
    LET noisyGlucose == glucoseValue + (glucoseValue * noiseValue) \div Frac
    IN  Max(40 * Milli, Min(400 * Milli, noisyGlucose))

\* the try block, when nothing in it raises
NormalCurve(patient, treatments, now, noise) ==
    LET noiseArray == generateWeeklyNoise(patient.id, getWeekStart(now), noise)
        simulationResult ==
            simulateGlucoseProfile(
                [ patient |-> patient,
                  treatments |-> [ k \in 1..Len(treatments) |->
                                       ConvertTreatment(treatments[k]) ],
                  startTime |-> now,
                  durationHours |-> 24,
                  intervalMinutes |-> 5,
                  baselineGlucose |-> 120 ])
    IN  [ index \in 1..Len(simulationResult) |->
            LET point == simulationResult[index]
                noiseValue == noiseArray[((index - 1) % NoiseLength) + 1]
            IN  [ id |-> << patient.id, toISOString(point.timestamp) >>,
                  patientId |-> patient.id,
                  timestamp |-> toISOString(point.timestamp),
                  glucoseValue |-> ApplyNoise(point.glucoseValue, noiseValue),
                  isPredicted |-> TRUE,
                  calculationTimestamp |-> toISOString(now) ] ]

\* what in the try block raises: the library call inside generateWeeklyNoise,
\* or reading t.timestamp of a list element that is not an object
TryRaises(treatments, perlinTry) ==
    \/ perlinTry = Throws
    \/ \E k \in 1..Len(treatments) : treatments[k].type = NotAnObject.type

\* The try block of calculateGlucoseCurve run at clock value now; perlinTry is
\* the outcome of the library call (a draw, or Throws).
TryBlock(patient, treatments, now, perlinTry) ==
    IF TryRaises(treatments, perlinTry)
    THEN [ raised |-> TRUE, readings |-> << >> ]
    ELSE [ raised |-> FALSE,
           readings |-> NormalCurve(patient, treatments, now,
                                    generatePerlinNoise(perlinTry)) ]

\* The catch block: return this.generateFallbackGlucoseCurve(patient)
CatchBlock(patient, now, perlinCatch) ==
    IF perlinCatch = Throws
    THEN [ raised |-> TRUE, readings |-> << >> ]
    ELSE [ raised |-> FALSE,
           readings |-> generateFallbackGlucoseCurve(patient, now,
                            generatePerlinNoise(perlinCatch)) ]

\* calculateGlucoseCurve(patient, treatments) as one step
calculateGlucoseCurve(patient, treatments, now, perlinTry, perlinCatch) ==
    LET try == TryBlock(patient, treatments, now, perlinTry)
        catch == CatchBlock(patient, now, perlinCatch)
    IN  IF ~ try.raised
        THEN [ outcome |-> "resolved", path |-> "normal", readings |-> try.readings ]
        ELSE IF catch.raised
             THEN [ outcome |-> "rejected", path |-> "fallback", readings |-> << >> ]
             ELSE [ outcome |-> "resolved", path |-> "fallback",
                    readings |-> catch.readings ]

--------------------------------------------------------------------------
(* Bounds of the model.                                                    *)

\* clock ticks, treatments per list, draws of the noise library's random source
MaxTicks == 1
MaxTreatments == 2
MaxDraw == 1

\* runs of initializeApp, treatment saves, and the readings of each computed
\* series that the screens hand to the store
MaxInits == 2
MaxSaves == 1
MaxRows == 2

\* weeks before the current one that generateWeeklyNoise is asked for
MaxWeeksBack == 2

\* draws of the random source followed where the screens run the engine
MaxStoreDraw == 0

\* stays of an hour and a half between two uses of the screen, and the
\* treatments stored over the day
MaxLater == 3
\* how many times the app is closed and opened again more than a day later
MaxDays == 2
MaxStored == 2

\* readings of a series handed to a readout function
MaxReadings == 3

\* treatments of a list handed to simulateGlucoseProfile on its own
MaxProfileTreatments == 1

--------------------------------------------------------------------------
VARIABLES
    clock,             \* the wall clock, minutes since the epoch
    engine,            \* the current or last call of calculateGlucoseCurve
    noiseLog,          \* the last two calls of generateWeeklyNoise and their results
    database,          \* DatabaseService: db handle, isInitialized, tables created, patients table
    treatmentsTable,   \* rows of the treatments table
    glucose_readings,  \* rows of the glucose_readings table
    screen,            \* the home screen: which component, its React state
    task,              \* the running initializeApp ("home") and handleTreatmentSave ("save")
    chart,             \* the chart screen
    audit,             \* history: series handed to saveGlucoseReadings, overlap of the saves
    modal,             \* the treatment form: visible, its fields as typed, loading
    lastCall           \* the last call made directly to a service function, and its result

engineVars == << engine, noiseLog, lastCall >>
appVars == << database, treatmentsTable, glucose_readings, screen, task, chart, audit,
             modal >>
vars == << clock, engine, noiseLog, database, treatmentsTable, glucose_readings,
           screen, task, chart, audit, modal, lastCall >>

InitialClock == 3 * MinutesPerDay + 615

\* the tables initializeDatabase creates
TableNames == { "patients", "treatments", "glucose_readings" }

\* what a text field of the form holds: the characters typed
NoText == << >>

\* TreatmentInputModal as useState leaves it, not shown
FormClosed ==
    [ visible |-> FALSE, treatmentType |-> "meal", carbohydrates |-> NoText,
      rapidInsulin |-> NoText, longInsulin |-> NoText, exerciseType |-> "moderate",
      exerciseDuration |-> NoText, notes |-> NoText, loading |-> FALSE,
      initialType |-> "meal", edits |-> 0 ]

PerlinOutcomes == {Throws} \cup (0..MaxDraw)

StoreOutcomes == {Throws} \cup (0..MaxStoreDraw)

\* a stored treatment (a row of the treatments table, as getTreatments maps it)
TreatmentRow(id, timestamp, type, carbohydrates, rapidInsulin, longInsulin, exerciseType, exerciseDuration) ==
    [ id |-> id, patientId |-> DEFAULT_PATIENT.id,
      timestamp |-> toISOString(timestamp), type |-> type,
      carbohydrates |-> carbohydrates, rapidInsulin |-> rapidInsulin,
      longInsulin |-> longInsulin, exerciseType |-> exerciseType,
      exerciseDuration |-> exerciseDuration ]

\* the treatments a caller may pass at clock value now
TreatmentPool(now) ==
    { TreatmentRow("t1", now - 30, "meal", 100, Null, Null, NoString, Null),
      TreatmentRow("t2", now - 60, "rapid_insulin", Null, 4, Null, NoString, Null),
      TreatmentRow("t3", now - 120, "long_insulin", Null, Null, 20, NoString, Null),
      TreatmentRow("t4", now, "exercise", Null, Null, Null, "moderate", 30),
      TreatmentRow("t5", now + 30, "correction", Null, 2, Null, NoString, Null),
      NotAnObject }

TreatmentLists(now) ==
    UNION { [ 1..n -> TreatmentPool(now) ] : n \in 0..MaxTreatments }

EngineIdle ==
    [ pc |-> "idle", path |-> "none", now |-> 0, treatments |-> << >>,
      readings |-> << >> ]

NoTreatment == TreatmentRow(<< >>, 0, NoString, Null, Null, Null, NoString, Null)

\* an async function that is not running
TaskIdle ==
    [ pc |-> "idle", treatment |-> NoTreatment, treatmentData |-> << >>,
      newReadings |-> << >>, k |-> 0, path |-> "none", sim |-> "none",
      calcCalls |-> 0, result |-> "none" ]

Tasks == {"home", "save"}

\* no service function was called directly
NoCall == [ fn |-> "none" ]

\* a fresh install before the first screen mounts: new DatabaseService(),
\* no database file
Init ==
    /\ clock = InitialClock
    /\ engine = EngineIdle
    /\ noiseLog = << >>
    /\ database = [ db |-> "null", isInitialized |-> FALSE, tables |-> {},
                    patients |-> {} ]
    /\ treatmentsTable = {}
    /\ glucose_readings = {}
    /\ screen = [ build |-> "unmounted", loading |-> TRUE, patient |-> FALSE,
                  glucoseReadings |-> << >>, inits |-> 0, saves |-> 0 ]
    /\ task = [ t \in Tasks |-> TaskIdle ]
    /\ chart = [ pc |-> "idle", glucoseReadings |-> << >>, loaded |-> FALSE ]
    /\ audit = [ submitted |-> {}, lastWriter |-> "none", lastSeries |-> << >>,
                 overlapped |-> FALSE, raised |-> FALSE ]
    /\ modal = FormClosed
    /\ lastCall = NoCall

\* time passes (never inside a synchronous run of the engine)
Tick ==
    /\ clock < InitialClock + MaxTicks
    /\ engine.pc # "catch"
    /\ clock' = clock + 1
    /\ UNCHANGED << engineVars, appVars >>

\* a call of calculateGlucoseCurve(DEFAULT_PATIENT, treatments): the try block
CallCalculateGlucoseCurve ==
    /\ engine.pc = "idle"
    /\ \E treatments \in TreatmentLists(clock), perlinTry \in PerlinOutcomes :
          LET try == TryBlock(DEFAULT_PATIENT, treatments, clock, perlinTry)
          IN  engine' = [ pc |-> IF try.raised THEN "catch" ELSE "resolved",
                          path |-> IF try.raised THEN "fallback" ELSE "normal",
                          now |-> clock,
                          treatments |-> treatments,
                          readings |-> try.readings ]
    /\ UNCHANGED << clock, noiseLog, lastCall, appVars >>

\* the catch block of the call: the fallback series, or its exception
CatchCalculateGlucoseCurve ==
    /\ engine.pc = "catch"
    /\ \E perlinCatch \in PerlinOutcomes :
          LET catch == CatchBlock(DEFAULT_PATIENT, engine.now, perlinCatch)
          IN  engine' = [ engine EXCEPT
                            !.pc = IF catch.raised THEN "rejected" ELSE "resolved",
                            !.readings = catch.readings ]
    /\ UNCHANGED << clock, noiseLog, lastCall, appVars >>

\* the caller takes the settled promise; the engine is ready for a next call
ReturnToCaller ==
    /\ engine.pc \in {"resolved", "rejected"}
    /\ engine' = EngineIdle
    /\ UNCHANGED << clock, noiseLog, lastCall, appVars >>

NextEngine ==
    \/ Tick
    \/ CallCalculateGlucoseCurve
    \/ CatchCalculateGlucoseCurve
    \/ ReturnToCaller

SpecEngine == Init /\ [][NextEngine]_vars

--------------------------------------------------------------------------
(* The noise generator called on its own.                                  *)

PatientIds == { DEFAULT_PATIENT.id, "patient-002" }

\* a call of generateWeeklyNoise(patientId, weekStart) that returns: the
\* week of the clock or one of the weeks before
CallGenerateWeeklyNoise ==
    /\ \E patientId \in PatientIds, weeksBack \in 0..MaxWeeksBack, draw \in 0..MaxDraw :
          LET weekStart == getWeekStart(clock) - 7 * weeksBack
              call == [ patientId |-> patientId,
                        weekStart |-> weekStart,
                        result |-> generateWeeklyNoise(patientId, weekStart,
                                       generatePerlinNoise(draw)) ]
          IN  noiseLog' = IF Len(noiseLog) < 2 THEN Append(noiseLog, call)
                          ELSE << noiseLog[2], call >>
    /\ UNCHANGED << clock, engine, lastCall, appVars >>

SpecNoise == Init /\ [][CallGenerateWeeklyNoise]_vars

--------------------------------------------------------------------------
(* DatabaseService: the statements it runs on the tables.                  *)

ToSet(seq) == { seq[k] : k \in 1..Len(seq) }

RECURSIVE TopFirst(_)
\* the rows with the latest first, taken one by one
TopFirst(rows) ==
    IF rows = {} THEN << >>
    ELSE LET top == CHOOSE r \in rows :
                        \A o \in rows : ~ IsoLess(r.timestamp, o.timestamp)
         IN  << top >> \o TopFirst(rows \ {top})

\* ORDER BY timestamp DESC.  When no two rows have the same timestamp a row
\* stands after as many rows as have a later timestamp, which gives the
\* order of TopFirst without its recursion
OrderByTimestampDesc(rows) ==
    LET placed == { << Cardinality({ o \in rows : IsoLess(r.timestamp, o.timestamp) }), r >>
                      : r \in rows }
    IN  IF Cardinality({ r.timestamp : r \in rows }) = Cardinality(rows)
        THEN [ k \in 1..Cardinality(rows) |->
                 (CHOOSE p \in placed : p[1] = k - 1)[2] ]
        ELSE TopFirst(rows)

\* LIMIT ?
Limit(rows, limit) == SubSeq(rows, 1, Min(limit, Len(rows)))

\* JS `x || null` on a number
OrNull(x) == IF x = 0 THEN Null ELSE x

\* no row of the table has this primary key
PrimaryKeyFree(table, id) == \A r \in table : r.id # id

\* getTreatments(patientId, limit, hoursBack) run at clock value now
getTreatments(table, patientId, limit, hoursBack, now) ==
    LET cutoffTime == toISOString(now - hoursBack * 60)
    IN  Limit(OrderByTimestampDesc(
                  { r \in table : /\ r.patientId = patientId
                                  /\ ~ IsoLess(r.timestamp, cutoffTime) }),
              limit)

\* getGlucoseReadings(patientId, limit)
getGlucoseReadings(table, patientId, limit) ==
    Limit(OrderByTimestampDesc({ r \in table : r.patientId = patientId }), limit)

\* DELETE FROM glucose_readings WHERE patient_id = ? AND is_predicted = 1
DeletePredicted(table, patientId) ==
    { r \in table : ~ (r.patientId = patientId /\ r.isPredicted) }

\* a faulty variant of InsertReadingFails: the CHECK on glucose_value allows
\* the target range (70 to 180) only
InsertReadingFailsOutsideTarget(table, reading) ==
    \/ ~ PrimaryKeyFree(table, reading.id)
    \/ reading.glucoseValue < 70 * Milli
    \/ reading.glucoseValue > 180 * Milli

\* INSERT INTO glucose_readings fails: the id is taken, or the CHECK on
\* glucose_value (20 to 600) rejects the row
InsertReadingFails(table, reading) ==
    \/ ~ PrimaryKeyFree(table, reading.id)
    \/ reading.glucoseValue < 20 * Milli
    \/ reading.glucoseValue > 600 * Milli

--------------------------------------------------------------------------
(* The screens.  Every action is one database statement of an async        *)
(* function together with the synchronous code that follows it up to the   *)
(* next statement; the statements of different functions interleave.       *)

\* what the treatment form can submit: type and amount
ModalInputs ==
    { [ type |-> "meal", carbohydrates |-> 60, rapidInsulin |-> 0 ],
      [ type |-> "rapid_insulin", carbohydrates |-> 0, rapidInsulin |-> 4 ] }

SaveInProgress(t) == task[t].pc \in {"delete", "insert"}

Other(t) == IF t = "home" THEN "save" ELSE "home"

\* the end of initializeApp (finally: setLoading(false)) or of
\* handleTreatmentSave (return true)
Done(t, tk) ==
    IF t = "save" THEN [ tk EXCEPT !.pc = "idle", !.result = "true" ]
    ELSE [ tk EXCEPT !.pc = "idle" ]

ScreenDone(t, scr) ==
    IF t = "home" THEN [ scr EXCEPT !.loading = FALSE ] ELSE scr

\* a faulty variant of RunSimulation: the engine converts the objects of the
\* caller's list in place
RunSimulationConverting(t, treatmentData, perlinTry, perlinCatch) ==
    LET curve == calculateGlucoseCurve(DEFAULT_PATIENT, treatmentData, clock,
                                       perlinTry, perlinCatch)
        begun == [ task[t] EXCEPT !.treatmentData =
                                      [ k \in 1..Len(treatmentData) |->
                                          ConvertTreatment(treatmentData[k]) ],
                                  !.calcCalls = @ + 1,
                                  !.path = curve.path,
                                  !.newReadings = Limit(curve.readings, MaxRows) ]
    IN  IF curve.outcome = "rejected"
        THEN Done(t, [ begun EXCEPT !.sim = "failed" ])
        ELSE [ begun EXCEPT !.sim = "running", !.pc = "delete", !.k = 1 ]

\* runSimulation(patient, treatmentData) from its start to the first
\* statement of saveGlucoseReadings; the store follows the first MaxRows
\* readings of the series
RunSimulation(t, treatmentData, perlinTry, perlinCatch) ==
    LET curve == calculateGlucoseCurve(DEFAULT_PATIENT, treatmentData, clock,
                                       perlinTry, perlinCatch)
        begun == [ task[t] EXCEPT !.treatmentData = treatmentData,
                                  !.calcCalls = @ + 1,
                                  !.path = curve.path,
                                  !.newReadings = Limit(curve.readings, MaxRows) ]
    IN  IF curve.outcome = "rejected"
        THEN Done(t, [ begun EXCEPT !.sim = "failed" ])
        ELSE [ begun EXCEPT !.sim = "running", !.pc = "delete", !.k = 1 ]

\* the history after task t ran runSimulation up to next: whether the
\* engine raised inside, and the call of saveGlucoseReadings if there is one
Audit(t, next) ==
    IF next.pc = "idle"
    THEN [ audit EXCEPT !.raised = TRUE ]
    ELSE [ submitted |-> audit.submitted \cup {next.newReadings},
           lastWriter |-> t,
           lastSeries |-> next.newReadings,
           overlapped |-> audit.overlapped \/ SaveInProgress(Other(t)),
           raised |-> audit.raised \/ next.path = "fallback" ]

\* HomeScreen mounts: useEffect(() => { initializeApp() }, [])
MountHomeScreen ==
    /\ screen.build = "unmounted"
    /\ screen' = [ screen EXCEPT !.build = "HomeScreen", !.loading = TRUE,
                                 !.inits = 1 ]
    /\ task' = [ task EXCEPT !["home"] = [ TaskIdle EXCEPT !.pc = "initializeDatabase" ] ]
    /\ UNCHANGED << clock, modal, engineVars, database, treatmentsTable,
                    glucose_readings, chart, audit >>

\* the tabs/index home screen mounts: the same effect
MountTabsIndex ==
    /\ screen.build = "unmounted"
    /\ screen' = [ screen EXCEPT !.build = "tabs/index", !.loading = TRUE,
                                 !.inits = 1 ]
    /\ task' = [ task EXCEPT !["home"] = [ TaskIdle EXCEPT !.pc = "initializeDatabase" ] ]
    /\ UNCHANGED << clock, modal, engineVars, database, treatmentsTable,
                    glucose_readings, chart, audit >>

\* pull to refresh (or Retry when no patient was loaded): initializeApp again
onRefresh ==
    /\ screen.build # "unmounted"
    /\ ~ screen.loading
    /\ task["home"].pc = "idle"
    /\ screen.inits < MaxInits
    /\ screen' = [ screen EXCEPT !.loading = TRUE, !.inits = @ + 1 ]
    /\ task' = [ task EXCEPT !["home"] = [ TaskIdle EXCEPT !.pc = "initializeDatabase" ] ]
    /\ UNCHANGED << clock, modal, engineVars, database, treatmentsTable,
                    glucose_readings, chart, audit >>

\* await databaseService.initializeDatabase()
initializeDatabase ==
    /\ task["home"].pc = "initializeDatabase"
    /\ database' = IF database.isInitialized THEN database
                   ELSE [ db |-> "open", isInitialized |-> TRUE, tables |-> TableNames,
                          patients |-> database.patients \cup {DEFAULT_PATIENT.id} ]
    /\ task' = [ task EXCEPT !["home"].pc = "getPatient" ]
    /\ UNCHANGED << clock, modal, engineVars, treatmentsTable, glucose_readings,
                    screen, chart, audit >>

\* await databaseService.getPatient(DEFAULT_PATIENT.id); setPatient
getPatient ==
    /\ task["home"].pc = "getPatient"
    /\ LET loaded == DEFAULT_PATIENT.id \in database.patients
       IN  /\ screen' = [ screen EXCEPT !.patient = loaded,
                                        !.loading = IF loaded THEN @ ELSE FALSE ]
           /\ task' = [ task EXCEPT !["home"].pc =
                            IF loaded THEN "getTreatments" ELSE "idle" ]
    /\ UNCHANGED << clock, modal, engineVars, database, treatmentsTable,
                    glucose_readings, chart, audit >>

\* HomeScreen.initializeApp: getTreatments(id, 10, 4) for the simulation,
\* getTreatments(id, 8, 12) for the list on the screen
initializeApp_getTreatments ==
    /\ screen.build = "HomeScreen"
    /\ task["home"].pc = "getTreatments"
    /\ task' = [ task EXCEPT
                   !["home"].treatmentData =
                       getTreatments(treatmentsTable, DEFAULT_PATIENT.id, 10, 4, clock),
                   !["home"].pc = "getGlucoseReadings" ]
    /\ UNCHANGED << clock, modal, engineVars, database, treatmentsTable,
                    glucose_readings, screen, chart, audit >>

\* tabs/index initializeApp: getTreatments(id, 5), then finally
TabsIndex_initializeApp_getTreatments ==
    /\ screen.build = "tabs/index"
    /\ task["home"].pc = "getTreatments"
    /\ task' = [ task EXCEPT
                   !["home"].treatmentData =
                       getTreatments(treatmentsTable, DEFAULT_PATIENT.id, 5, 6, clock),
                   !["home"].pc = "idle" ]
    /\ screen' = [ screen EXCEPT !.loading = FALSE ]
    /\ UNCHANGED << clock, modal, engineVars, database, treatmentsTable,
                    glucose_readings, chart, audit >>

\* HomeScreen.initializeApp: getGlucoseReadings(id, 288); with no reading
\* stored, runSimulation(loadedPatient, simulationTreatments)
initializeApp_getGlucoseReadings ==
    /\ task["home"].pc = "getGlucoseReadings"
    /\ LET existingReadings ==
               getGlucoseReadings(glucose_readings, DEFAULT_PATIENT.id, 288)
       IN  IF Len(existingReadings) = 0
           THEN \E perlinTry \in StoreOutcomes :
                \E perlinCatch \in IF perlinTry = Throws THEN StoreOutcomes ELSE {Throws} :
                   LET next == RunSimulation("home", task["home"].treatmentData,
                                             perlinTry, perlinCatch)
                   IN  /\ task' = [ task EXCEPT !["home"] = next ]
                       /\ screen' = IF next.pc = "idle"
                                    THEN ScreenDone("home", screen) ELSE screen
                       /\ audit' = Audit("home", next)
           ELSE /\ task' = [ task EXCEPT !["home"].pc = "idle" ]
                /\ screen' = [ screen EXCEPT !.glucoseReadings = existingReadings,
                                             !.loading = FALSE ]
                /\ audit' = audit
    /\ UNCHANGED << clock, modal, engineVars, database, treatmentsTable,
                    glucose_readings, chart >>

\* TreatmentInputModal.handleSave with a valid form: builds the treatment
\* and calls onSave = handleTreatmentSave, which adds id and patientId and
\* issues saveTreatment
handleSave ==
    /\ screen.build # "unmounted"
    /\ ~ screen.loading
    /\ screen.patient
    /\ task["save"].pc = "idle"
    /\ screen.saves < MaxSaves
    /\ \E input \in ModalInputs :
          task' = [ task EXCEPT !["save"] =
                      [ TaskIdle EXCEPT
                          !.pc = "saveTreatment",
                          !.treatment =
                              TreatmentRow(<< DEFAULT_PATIENT.id, "treatment", clock >>,
                                           clock, input.type, input.carbohydrates,
                                           input.rapidInsulin, 0, NoString, 0) ] ]
    /\ screen' = [ screen EXCEPT !.saves = @ + 1 ]
    /\ UNCHANGED << clock, modal, engineVars, database, treatmentsTable,
                    glucose_readings, chart, audit >>

\* a faulty variant of saveTreatment: the INSERT is not run and
\* handleTreatmentSave goes on
saveTreatmentSkipped ==
    /\ task["save"].pc = "saveTreatment"
    /\ task' = [ task EXCEPT !["save"].pc = "getTreatments" ]
    /\ UNCHANGED << clock, modal, engineVars, database, treatmentsTable, glucose_readings,
                    screen, chart, audit >>

\* await databaseService.saveTreatment(treatment): the INSERT, which raises
\* when the id is taken (handleTreatmentSave then returns false)
saveTreatment ==
    /\ task["save"].pc = "saveTreatment"
    /\ LET treatment == task["save"].treatment
           row == [ treatment EXCEPT
                      !.carbohydrates = OrNull(@),
                      !.rapidInsulin = OrNull(@),
                      !.longInsulin = OrNull(@),
                      !.exerciseDuration = OrNull(@) ]
       IN  IF PrimaryKeyFree(treatmentsTable, treatment.id)
           THEN /\ treatmentsTable' = treatmentsTable \cup {row}
                /\ task' = [ task EXCEPT !["save"].pc = "getTreatments" ]
           ELSE /\ treatmentsTable' = treatmentsTable
                /\ task' = [ task EXCEPT !["save"].pc = "idle",
                                         !["save"].result = "false" ]
    /\ UNCHANGED << clock, modal, engineVars, database, glucose_readings, screen,
                    chart, audit >>

\* HomeScreen.handleTreatmentSave after the save: getTreatments(id, 10, 4),
\* getTreatments(id, 8, 12), then await runSimulation(patient,
\* simulationTreatments) and return true
handleTreatmentSave_getTreatments ==
    /\ screen.build = "HomeScreen"
    /\ task["save"].pc = "getTreatments"
    /\ \E perlinTry \in StoreOutcomes :
       \E perlinCatch \in IF perlinTry = Throws THEN StoreOutcomes ELSE {Throws} :
          LET simulationTreatments ==
                  getTreatments(treatmentsTable, DEFAULT_PATIENT.id, 10, 4, clock)
              next == RunSimulation("save", simulationTreatments,
                                    perlinTry, perlinCatch)
          IN  /\ task' = [ task EXCEPT !["save"] = next ]
              /\ audit' = Audit("save", next)
    /\ UNCHANGED << clock, modal, engineVars, database, treatmentsTable,
                    glucose_readings, screen, chart >>

\* tabs/index handleTreatmentSave after the save: getTreatments(id, 5),
\* setTreatments, return true
TabsIndex_handleTreatmentSave_getTreatments ==
    /\ screen.build = "tabs/index"
    /\ task["save"].pc = "getTreatments"
    /\ task' = [ task EXCEPT
                   !["save"].treatmentData =
                       getTreatments(treatmentsTable, DEFAULT_PATIENT.id, 5, 6, clock),
                   !["save"].pc = "idle",
                   !["save"].result = "true" ]
    /\ UNCHANGED << clock, modal, engineVars, database, treatmentsTable,
                    glucose_readings, screen, chart, audit >>

\* saveGlucoseReadings(readings): the DELETE of the patient's predicted rows
saveGlucoseReadings_delete(t) ==
    /\ task[t].pc = "delete"
    /\ glucose_readings' =
           DeletePredicted(glucose_readings, task[t].newReadings[1].patientId)
    /\ task' = [ task EXCEPT ![t].pc = "insert", ![t].k = 1 ]
    /\ UNCHANGED << clock, modal, engineVars, database, treatmentsTable, screen,
                    chart, audit >>

\* saveGlucoseReadings(readings): the INSERT of readings[k].  A failing
\* INSERT ends runSimulation in its catch; the last INSERT ends
\* saveGlucoseReadings, and runSimulation goes on to setGlucoseReadings
saveGlucoseReadings_insert(t) ==
    /\ task[t].pc = "insert"
    /\ LET reading == task[t].newReadings[task[t].k]
       IN  IF InsertReadingFails(glucose_readings, reading)
           THEN /\ glucose_readings' = glucose_readings
                /\ task' = [ task EXCEPT ![t] = Done(t, [ @ EXCEPT !.sim = "failed" ]) ]
                /\ screen' = ScreenDone(t, screen)
           ELSE /\ glucose_readings' = glucose_readings \cup {reading}
                /\ IF task[t].k < Len(task[t].newReadings)
                   THEN /\ task' = [ task EXCEPT ![t].k = @ + 1 ]
                        /\ screen' = screen
                   ELSE /\ task' = [ task EXCEPT ![t] = Done(t, [ @ EXCEPT !.sim = "saved" ]) ]
                        /\ screen' = ScreenDone(t,
                               [ screen EXCEPT !.glucoseReadings = task[t].newReadings ])
    /\ UNCHANGED << clock, modal, engineVars, database, treatmentsTable, chart, audit >>

\* ChartScreen.initializeChart: getPatient (which raises while the database
\* handle is null), then getTreatments for the markers
initializeChart ==
    /\ chart.pc = "idle"
    /\ chart' = [ chart EXCEPT !.pc =
                    IF database.db = "open" /\ DEFAULT_PATIENT.id \in database.patients
                    THEN "getGlucoseReadings" ELSE "idle" ]
    /\ UNCHANGED << clock, modal, engineVars, database, treatmentsTable,
                    glucose_readings, screen, task, audit >>

\* ChartScreen.initializeChart: getGlucoseReadings(id, 288); setGlucoseReadings
initializeChart_getGlucoseReadings ==
    /\ chart.pc = "getGlucoseReadings"
    /\ chart' = [ pc |-> "idle",
                  glucoseReadings |->
                      getGlucoseReadings(glucose_readings, DEFAULT_PATIENT.id, 288),
                  loaded |-> TRUE ]
    /\ UNCHANGED << clock, modal, engineVars, database, treatmentsTable,
                    glucose_readings, screen, task, audit >>

Next ==
    \/ Tick
    \/ MountHomeScreen
    \/ MountTabsIndex
    \/ onRefresh
    \/ initializeDatabase
    \/ getPatient
    \/ initializeApp_getTreatments
    \/ TabsIndex_initializeApp_getTreatments
    \/ initializeApp_getGlucoseReadings
    \/ handleSave
    \/ saveTreatment
    \/ handleTreatmentSave_getTreatments
    \/ TabsIndex_handleTreatmentSave_getTreatments
    \/ \E t \in Tasks : saveGlucoseReadings_delete(t)
    \/ \E t \in Tasks : saveGlucoseReadings_insert(t)

Spec == Init /\ [][Next]_vars

\* HomeScreen and the chart screen side by side
NextChart ==
    \/ Tick
    \/ MountHomeScreen
    \/ onRefresh
    \/ initializeDatabase
    \/ getPatient
    \/ initializeApp_getTreatments
    \/ initializeApp_getGlucoseReadings
    \/ handleSave
    \/ saveTreatment
    \/ handleTreatmentSave_getTreatments
    \/ \E t \in Tasks : saveGlucoseReadings_delete(t)
    \/ \E t \in Tasks : saveGlucoseReadings_insert(t)
    \/ initializeChart
    \/ initializeChart_getGlucoseReadings

SpecChart == Init /\ [][NextChart]_vars

--------------------------------------------------------------------------
(* DatabaseService called directly, with statements that may fail.  Every  *)
(* method is one step here; sqlFails says that its SQLite statement raises *)
(* (an I/O error, a locked or corrupt file).  A result is the outcome for  *)
(* the caller (the promise resolves or rejects), the value it resolves     *)
(* with, and whether a persistence failure happened inside.                *)

\* if (!this.db) throw new Error('Database not initialized')
NotInitialized == [ outcome |-> "raised", failed |-> TRUE, value |-> "Database not initialized" ]

\* a faulty variant of DatabaseService_saveTreatment: the catch block logs
\* the error and returns
DatabaseService_saveTreatment_swallows(treatment, sqlFails) ==
    IF database.db = "null" THEN NotInitialized
    ELSE IF sqlFails \/ ~ PrimaryKeyFree(treatmentsTable, treatment.id)
         THEN [ outcome |-> "returned", failed |-> TRUE, value |-> "undefined" ]
         ELSE [ outcome |-> "returned", failed |-> FALSE, value |-> "undefined" ]

\* getPatient(id): a failing SELECT is caught, logged, and null is returned
DatabaseService_getPatient(id, sqlFails) ==
    IF database.db = "null" THEN NotInitialized
    ELSE IF sqlFails
         THEN [ outcome |-> "returned", failed |-> TRUE, value |-> "null" ]
         ELSE [ outcome |-> "returned", failed |-> FALSE,
                value |-> IF id \in database.patients THEN id ELSE "null" ]

\* savePatient(patient): a failing INSERT OR REPLACE is logged and thrown again
DatabaseService_savePatient(id, sqlFails) ==
    IF database.db = "null" THEN NotInitialized
    ELSE IF sqlFails
         THEN [ outcome |-> "raised", failed |-> TRUE, value |-> "error" ]
         ELSE [ outcome |-> "returned", failed |-> FALSE, value |-> "undefined" ]

\* saveTreatment(treatment): a failing INSERT (the statement raises, or the
\* id is taken) is logged and thrown again
DatabaseService_saveTreatment(treatment, sqlFails) ==
    IF database.db = "null" THEN NotInitialized
    ELSE IF sqlFails \/ ~ PrimaryKeyFree(treatmentsTable, treatment.id)
         THEN [ outcome |-> "raised", failed |-> TRUE, value |-> "error" ]
         ELSE [ outcome |-> "returned", failed |-> FALSE, value |-> "undefined" ]

\* getTreatments(patientId, limit, hoursBack): a failing SELECT is caught,
\* logged, and [] is returned
DatabaseService_getTreatments(patientId, limit, hoursBack, sqlFails) ==
    IF database.db = "null" THEN NotInitialized
    ELSE IF sqlFails
         THEN [ outcome |-> "returned", failed |-> TRUE, value |-> << >> ]
         ELSE [ outcome |-> "returned", failed |-> FALSE,
                value |-> getTreatments(treatmentsTable, patientId, limit,
                                        hoursBack, clock) ]

\* getGlucoseReadings(patientId, limit): a failing SELECT is caught, logged,
\* and [] is returned
DatabaseService_getGlucoseReadings(patientId, limit, sqlFails) ==
    IF database.db = "null" THEN NotInitialized
    ELSE IF sqlFails
         THEN [ outcome |-> "returned", failed |-> TRUE, value |-> << >> ]
         ELSE [ outcome |-> "returned", failed |-> FALSE,
                value |-> getGlucoseReadings(glucose_readings, patientId, limit) ]

RECURSIVE InsertRange(_, _, _, _, _)
\* the INSERTs of readings[lo] to readings[hi] in order, stopping at the
\* first that raises.  The range is split in halves to keep the
\* evaluation depth small.
InsertRange(table, readings, lo, hi, failAt) ==
    IF lo > hi THEN [ table |-> table, raised |-> FALSE ]
    ELSE IF lo = hi
         THEN IF failAt = lo + 1 \/ InsertReadingFails(table, readings[lo])
              THEN [ table |-> table, raised |-> TRUE ]
              ELSE [ table |-> table \cup {readings[lo]}, raised |-> FALSE ]
         ELSE LET firstHalf == InsertRange(table, readings, lo, (lo + hi) \div 2, failAt)
              IN  IF firstHalf.raised THEN firstHalf
                  ELSE InsertRange(firstHalf.table, readings, (lo + hi) \div 2 + 1,
                                   hi, failAt)

\* for (const reading of readings) await INSERT, from readings[k] on; failAt
\* is the statement that raises (0: none, 1: the DELETE, k + 1: the INSERT
\* of readings[k]).  The rows inserted before a failure stay in the table.
InsertReadings(table, readings, k, failAt) ==
    InsertRange(table, readings, k, Len(readings), failAt)

\* saveGlucoseReadings(readings): the table after the call and whether a
\* statement raised; a failure is logged and thrown again
DatabaseService_saveGlucoseReadings(readings, failAt) ==
    IF database.db = "null"
    THEN NotInitialized @@ [ table |-> glucose_readings ]
    ELSE IF Len(readings) > 0 /\ failAt = 1
         THEN [ outcome |-> "raised", failed |-> TRUE, value |-> "error",
                table |-> glucose_readings ]
         ELSE LET cleared == IF Len(readings) > 0
                             THEN DeletePredicted(glucose_readings, readings[1].patientId)
                             ELSE glucose_readings
                  inserted == InsertReadings(cleared, readings, 1, failAt)
              IN  [ outcome |-> IF inserted.raised THEN "raised" ELSE "returned",
                    failed |-> inserted.raised,
                    value |-> IF inserted.raised THEN "error" ELSE "undefined",
                    table |-> inserted.table ]

\* the series a caller hands to saveGlucoseReadings at clock value now
SeriesInputs(now) ==
    { << >>,
      Limit(generateFallbackGlucoseCurve(DEFAULT_PATIENT, now, generatePerlinNoise(0)),
            MaxRows) }

\* the tables created when one of the CREATE statements raises: those of
\* the statements before it
CreatedBeforeFailure ==
    { {}, {"patients"}, {"patients", "treatments"}, TableNames }

\* a faulty variant of Call_initializeDatabase: isInitialized is set before
\* the tables and the default patient are there
Call_initializeDatabaseEager ==
    /\ \E failAt \in {"none", "open", "exec", "savePatient"}, created \in CreatedBeforeFailure :
          IF database.isInitialized
          THEN /\ failAt = "none" /\ created = TableNames
               /\ database' = database
               /\ lastCall' = [ fn |-> "initializeDatabase", outcome |-> "returned",
                                failed |-> FALSE ]
          ELSE /\ failAt # "exec" => created = TableNames
               /\ database' =
                      CASE failAt = "open" -> database
                        [] failAt = "exec" ->
                               [ database EXCEPT !.db = "open", !.isInitialized = TRUE,
                                                 !.tables = @ \cup created ]
                        [] failAt = "savePatient" ->
                               [ database EXCEPT !.db = "open", !.isInitialized = TRUE,
                                                 !.tables = TableNames ]
                        [] OTHER -> [ db |-> "open", isInitialized |-> TRUE,
                                      tables |-> TableNames,
                                      patients |-> database.patients
                                                       \cup {DEFAULT_PATIENT.id} ]
               /\ lastCall' = [ fn |-> "initializeDatabase",
                                outcome |-> IF failAt = "none" THEN "returned"
                                            ELSE "raised",
                                failed |-> failAt # "none" ]
    /\ UNCHANGED << clock, modal, engine, noiseLog, treatmentsTable, glucose_readings,
                    screen, task, chart, audit >>

\* initializeDatabase(): failAt names what raises ("none", "open": opening
\* the file, "exec": a CREATE statement after it, "savePatient": the INSERT
\* of the default patient)
Call_initializeDatabase ==
    /\ \E failAt \in {"none", "open", "exec", "savePatient"}, created \in CreatedBeforeFailure :
          IF database.isInitialized
          THEN /\ failAt = "none" /\ created = TableNames
               /\ database' = database
               /\ lastCall' = [ fn |-> "initializeDatabase", outcome |-> "returned",
                                failed |-> FALSE ]
          ELSE /\ failAt # "exec" => created = TableNames
               /\ database' =
                      CASE failAt = "open" -> database
                        [] failAt = "exec" ->
                               [ database EXCEPT !.db = "open", !.tables = @ \cup created ]
                        [] failAt = "savePatient" ->
                               [ database EXCEPT !.db = "open", !.tables = TableNames ]
                        [] OTHER -> [ db |-> "open", isInitialized |-> TRUE,
                                      tables |-> TableNames,
                                      patients |-> database.patients
                                                       \cup {DEFAULT_PATIENT.id} ]
               /\ lastCall' = [ fn |-> "initializeDatabase",
                                outcome |-> IF failAt = "none" THEN "returned"
                                            ELSE "raised",
                                failed |-> failAt # "none" ]
    /\ UNCHANGED << clock, modal, engine, noiseLog, treatmentsTable, glucose_readings,
                    screen, task, chart, audit >>

Call_getPatient ==
    /\ \E id \in PatientIds, sqlFails \in BOOLEAN :
          lastCall' = [ fn |-> "getPatient" ] @@ DatabaseService_getPatient(id, sqlFails)
    /\ UNCHANGED << clock, engine, noiseLog, appVars >>

Call_savePatient ==
    /\ \E id \in PatientIds, sqlFails \in BOOLEAN :
          LET result == DatabaseService_savePatient(id, sqlFails)
          IN  /\ lastCall' = [ fn |-> "savePatient" ] @@ result
              /\ database' = IF result.outcome = "returned"
                             THEN [ database EXCEPT !.patients = @ \cup {id} ]
                             ELSE database
    /\ UNCHANGED << clock, modal, engine, noiseLog, treatmentsTable, glucose_readings,
                    screen, task, chart, audit >>

Call_saveTreatment ==
    /\ Cardinality(treatmentsTable) < MaxTreatments
    /\ \E input \in ModalInputs, sqlFails \in BOOLEAN :
          LET treatment == TreatmentRow(<< DEFAULT_PATIENT.id, "treatment", clock >>,
                                        clock, input.type, input.carbohydrates,
                                        input.rapidInsulin, 0, NoString, 0)
              row == [ treatment EXCEPT
                         !.carbohydrates = OrNull(@),
                         !.rapidInsulin = OrNull(@),
                         !.longInsulin = OrNull(@),
                         !.exerciseDuration = OrNull(@) ]
              result == DatabaseService_saveTreatment(treatment, sqlFails)
          IN  /\ lastCall' = [ fn |-> "saveTreatment" ] @@ result
              /\ treatmentsTable' = IF result.outcome = "returned" /\ ~ result.failed
                                    THEN treatmentsTable \cup {row}
                                    ELSE treatmentsTable
    /\ UNCHANGED << clock, modal, engine, noiseLog, database, glucose_readings,
                    screen, task, chart, audit >>

Call_getTreatments ==
    /\ \E sqlFails \in BOOLEAN :
          lastCall' = [ fn |-> "getTreatments" ]
                          @@ DatabaseService_getTreatments(DEFAULT_PATIENT.id, 10, 4, sqlFails)
    /\ UNCHANGED << clock, engine, noiseLog, appVars >>

Call_saveGlucoseReadings ==
    /\ \E readings \in SeriesInputs(clock) :
       \E failAt \in 0..(Len(readings) + 1) :
          LET result == DatabaseService_saveGlucoseReadings(readings, failAt)
          IN  /\ lastCall' = [ fn |-> "saveGlucoseReadings",
                               outcome |-> result.outcome,
                               failed |-> result.failed,
                               value |-> result.value ]
              /\ glucose_readings' = result.table
    /\ UNCHANGED << clock, modal, engine, noiseLog, database, treatmentsTable,
                    screen, task, chart, audit >>

Call_getGlucoseReadings ==
    /\ \E sqlFails \in BOOLEAN :
          lastCall' = [ fn |-> "getGlucoseReadings" ]
                          @@ DatabaseService_getGlucoseReadings(DEFAULT_PATIENT.id, 288, sqlFails)
    /\ UNCHANGED << clock, engine, noiseLog, appVars >>

NextStore ==
    \/ Tick
    \/ Call_initializeDatabase
    \/ Call_getPatient
    \/ Call_savePatient
    \/ Call_saveTreatment
    \/ Call_getTreatments
    \/ Call_saveGlucoseReadings
    \/ Call_getGlucoseReadings

SpecStore == Init /\ [][NextStore]_vars

\* closeDatabase(): closeAsync may raise, and then nothing is assigned
Call_closeDatabase ==
    /\ \E closeFails \in BOOLEAN :
          IF database.db = "null"
          THEN /\ ~closeFails
               /\ database' = database
               /\ lastCall' = [ fn |-> "closeDatabase", outcome |-> "returned",
                                failed |-> FALSE ]
          ELSE /\ database' = IF closeFails THEN database
                              ELSE [ database EXCEPT !.db = "null",
                                                     !.isInitialized = FALSE ]
               /\ lastCall' = [ fn |-> "closeDatabase",
                                outcome |-> IF closeFails THEN "raised" ELSE "returned",
                                failed |-> closeFails ]
    /\ UNCHANGED << clock, modal, engine, noiseLog, treatmentsTable, glucose_readings,
                    screen, task, chart, audit >>

\* DatabaseService opened, used, closed and opened again
NextLifecycle ==
    \/ NextStore
    \/ Call_closeDatabase

SpecLifecycle == Init /\ [][NextLifecycle]_vars

--------------------------------------------------------------------------
(* runSimulation and the readers of the store, with whole series: the      *)
(* engine's series is stored reading by reading and read back with         *)
(* getGlucoseReadings(id, 288) as the home and chart screens call it.      *)

\* the treatment lists runSimulation is called with here: none, a meal half
\* an hour ago, and a list with an element that is not an object (which
\* sends the engine to its fallback)
RoundTripLists(now) ==
    { << >>,
      << TreatmentRow("t1", now - 30, "meal", 100, Null, Null, NoString, Null) >>,
      << NotAnObject >> }

\* runSimulation(patientData, treatmentData) from start to end: the curve,
\* saveGlucoseReadings(newReadings), and the catch around both.  failAt is
\* the statement of saveGlucoseReadings that raises (0: none)
runSimulation ==
    /\ \E treatmentData \in RoundTripLists(clock), perlinTry \in StoreOutcomes :
       \E perlinCatch \in IF perlinTry = Throws THEN StoreOutcomes ELSE {Throws} :
       \E failAt \in {0, 2} :
          LET curve == calculateGlucoseCurve(DEFAULT_PATIENT, treatmentData, clock,
                                             perlinTry, perlinCatch)
              save == DatabaseService_saveGlucoseReadings(curve.readings, failAt)
          IN  IF curve.outcome = "rejected"
              THEN /\ failAt = 0
                   /\ lastCall' = [ fn |-> "runSimulation", outcome |-> "failed",
                                    path |-> curve.path, newReadings |-> << >> ]
                   /\ glucose_readings' = glucose_readings
              ELSE /\ lastCall' = [ fn |-> "runSimulation",
                                    outcome |-> IF save.outcome = "returned"
                                                THEN "saved" ELSE "failed",
                                    path |-> curve.path,
                                    newReadings |-> curve.readings ]
                   /\ glucose_readings' = save.table
    /\ UNCHANGED << clock, modal, engine, noiseLog, database, treatmentsTable,
                    screen, task, chart, audit >>

NextRoundTrip ==
    \/ Tick
    \/ Call_initializeDatabase
    \/ runSimulation
    \/ Call_getGlucoseReadings

SpecRoundTrip == Init /\ [][NextRoundTrip]_vars

--------------------------------------------------------------------------
(* HomeScreen used over a day: each handler runs to its end before the     *)
(* next one starts, and hours pass between two uses of the screen.  The    *)
(* noise library returns in these runs (draw is what its random source     *)
(* gave); the runs in which it raises are those of SpecEngine and Spec.    *)

\* what the treatment form can submit over a day: one of each type
FormInputs ==
    { [ type |-> "meal", carbohydrates |-> 60, rapidInsulin |-> 0,
        longInsulin |-> 0, exerciseType |-> NoString, exerciseDuration |-> 0 ],
      [ type |-> "rapid_insulin", carbohydrates |-> 0, rapidInsulin |-> 4,
        longInsulin |-> 0, exerciseType |-> NoString, exerciseDuration |-> 0 ],
      [ type |-> "correction", carbohydrates |-> 0, rapidInsulin |-> 2,
        longInsulin |-> 0, exerciseType |-> NoString, exerciseDuration |-> 0 ],
      [ type |-> "long_insulin", carbohydrates |-> 0, rapidInsulin |-> 0,
        longInsulin |-> 20, exerciseType |-> NoString, exerciseDuration |-> 0 ],
      [ type |-> "exercise", carbohydrates |-> 0, rapidInsulin |-> 0,
        longInsulin |-> 0, exerciseType |-> "moderate", exerciseDuration |-> 30 ] }

\* the options calculateGlucoseCurve passes to simulateGlucoseProfile
SimulationOptions(patient, treatments, now) ==
    [ patient |-> patient,
      treatments |-> [ k \in 1..Len(treatments) |-> ConvertTreatment(treatments[k]) ],
      startTime |-> now,
      durationHours |-> 24,
      intervalMinutes |-> 5,
      baselineGlucose |-> 120 ]

\* SELECT * FROM treatments WHERE patient_id = ?: every stored treatment of
\* the patient
StoredTreatments(table, patientId) ==
    OrderByTimestampDesc({ r \in table : r.patientId = patientId })

\* runSimulation(patient, treatmentData) run to its end: the call of
\* calculateGlucoseCurve as the claims observe it, and the table after
\* saveGlucoseReadings (the first MaxRows readings of the series)
RunSimulationToEnd(treatmentData, table, perlinTry, perlinCatch) ==
    LET curve == calculateGlucoseCurve(DEFAULT_PATIENT, treatmentData, clock,
                                       perlinTry, perlinCatch)
        newReadings == Limit(curve.readings, MaxRows)
    IN  [ invocation |-> [ fn |-> "calculateGlucoseCurve",
                           now |-> clock,
                           supplied |-> treatmentData,
                           stored |-> StoredTreatments(table, DEFAULT_PATIENT.id),
                           outcome |-> curve.outcome ],
          saved |-> curve.outcome = "resolved",
          newReadings |-> newReadings ]

\* the app is left alone for an hour and a half
Later ==
    /\ clock < InitialClock + 90 * MaxLater
    /\ clock' = clock + 90
    /\ UNCHANGED << engineVars, appVars >>

\* a faulty variant of initializeApp: stored readings whose 24 hours have
\* passed are recomputed
initializeAppRefreshing ==
    /\ \E draw \in 0..MaxStoreDraw :
          LET simulationTreatments ==
                  getTreatments(treatmentsTable, DEFAULT_PATIENT.id, 10, 4, clock)
              existingReadings ==
                  getGlucoseReadings(glucose_readings, DEFAULT_PATIENT.id, 288)
              run == RunSimulationToEnd(simulationTreatments, treatmentsTable,
                                        draw, Throws)
              stale == \A r \in glucose_readings :
                          IsoLess(r.timestamp, toISOString(clock - MinutesPerDay))
          IN  IF Len(existingReadings) = 0 \/ stale
              THEN /\ lastCall' = run.invocation
                   /\ glucose_readings' =
                          IF run.saved
                          THEN DeletePredicted(glucose_readings, DEFAULT_PATIENT.id)
                                   \cup ToSet(run.newReadings)
                          ELSE glucose_readings
                   /\ screen' = [ screen EXCEPT
                                    !.build = "HomeScreen", !.loading = FALSE,
                                    !.patient = TRUE,
                                    !.glucoseReadings =
                                        IF run.saved THEN run.newReadings ELSE @ ]
              ELSE /\ draw = 0
                   /\ lastCall' = [ fn |-> "initializeApp" ]
                   /\ glucose_readings' = glucose_readings
                   /\ screen' = [ screen EXCEPT
                                    !.build = "HomeScreen", !.loading = FALSE,
                                    !.patient = TRUE,
                                    !.glucoseReadings = existingReadings ]
    /\ database' = [ db |-> "open", isInitialized |-> TRUE, tables |-> TableNames,
                     patients |-> database.patients \cup {DEFAULT_PATIENT.id} ]
    /\ UNCHANGED << clock, modal, engine, noiseLog, treatmentsTable, task, chart, audit >>

\* HomeScreen.initializeApp from setLoading(true) to finally
initializeApp ==
    /\ \E draw \in 0..MaxStoreDraw :
          LET simulationTreatments ==
                  getTreatments(treatmentsTable, DEFAULT_PATIENT.id, 10, 4, clock)
              existingReadings ==
                  getGlucoseReadings(glucose_readings, DEFAULT_PATIENT.id, 288)
              run == RunSimulationToEnd(simulationTreatments, treatmentsTable,
                                        draw, Throws)
          IN  IF Len(existingReadings) = 0
              THEN /\ lastCall' = run.invocation
                   /\ glucose_readings' =
                          IF run.saved
                          THEN DeletePredicted(glucose_readings, DEFAULT_PATIENT.id)
                                   \cup ToSet(run.newReadings)
                          ELSE glucose_readings
                   /\ screen' = [ screen EXCEPT
                                    !.build = "HomeScreen", !.loading = FALSE,
                                    !.patient = TRUE,
                                    !.glucoseReadings =
                                        IF run.saved THEN run.newReadings ELSE @ ]
              ELSE /\ draw = 0
                   /\ lastCall' = [ fn |-> "initializeApp" ]
                   /\ glucose_readings' = glucose_readings
                   /\ screen' = [ screen EXCEPT
                                    !.build = "HomeScreen", !.loading = FALSE,
                                    !.patient = TRUE,
                                    !.glucoseReadings = existingReadings ]
    /\ database' = [ db |-> "open", isInitialized |-> TRUE, tables |-> TableNames,
                     patients |-> database.patients \cup {DEFAULT_PATIENT.id} ]
    /\ UNCHANGED << clock, modal, engine, noiseLog, treatmentsTable, task, chart, audit >>

\* HomeScreen.handleTreatmentSave(treatmentData) from the form's onSave to
\* its return
handleTreatmentSave ==
    /\ screen.patient
    /\ Cardinality(treatmentsTable) < MaxStored
    /\ \E input \in FormInputs, draw \in 0..MaxStoreDraw :
          LET treatment == TreatmentRow(<< DEFAULT_PATIENT.id, "treatment", clock >>,
                                        clock, input.type, input.carbohydrates,
                                        input.rapidInsulin, input.longInsulin,
                                        input.exerciseType, input.exerciseDuration)
              row == [ treatment EXCEPT
                         !.carbohydrates = OrNull(@),
                         !.rapidInsulin = OrNull(@),
                         !.longInsulin = OrNull(@),
                         !.exerciseDuration = OrNull(@) ]
              saved == treatmentsTable \cup {row}
              simulationTreatments ==
                  getTreatments(saved, DEFAULT_PATIENT.id, 10, 4, clock)
              run == RunSimulationToEnd(simulationTreatments, saved,
                                        draw, Throws)
          IN  IF PrimaryKeyFree(treatmentsTable, treatment.id)
              THEN /\ treatmentsTable' = saved
                   /\ lastCall' = run.invocation
                   /\ glucose_readings' =
                          IF run.saved
                          THEN DeletePredicted(glucose_readings, DEFAULT_PATIENT.id)
                                   \cup ToSet(run.newReadings)
                          ELSE glucose_readings
                   /\ screen' = [ screen EXCEPT !.glucoseReadings =
                                      IF run.saved THEN run.newReadings ELSE @ ]
              ELSE /\ draw = 0
                   /\ lastCall' = [ fn |-> "handleTreatmentSave" ]
                   /\ UNCHANGED << treatmentsTable, glucose_readings, screen >>
    /\ UNCHANGED << clock, modal, engine, noiseLog, database, task, chart, audit >>

NextSource ==
    \/ Later
    \/ initializeApp
    \/ handleTreatmentSave

SpecSource == Init /\ [][NextSource]_vars

\* the app is closed and opened again 25 hours later: the component state
\* and the database handle of the old process are gone, the tables stay
DayLater ==
    /\ clock < InitialClock + 1500 * MaxDays
    /\ clock' = clock + 1500
    /\ screen' = [ build |-> "unmounted", loading |-> TRUE, patient |-> FALSE,
                   glucoseReadings |-> << >>, inits |-> 0, saves |-> 0 ]
    /\ database' = [ database EXCEPT !.db = "null", !.isInitialized = FALSE ]
    /\ UNCHANGED << engineVars, treatmentsTable, glucose_readings, task, chart, audit,
                    modal >>

\* HomeScreen mounted, refreshed and used for treatments over several days
NextStale ==
    \/ DayLater
    \/ initializeApp
    \/ handleTreatmentSave

SpecStale == Init /\ [][NextStale]_vars

--------------------------------------------------------------------------
(* Readout functions: getCurrentGlucoseValue and calculateTrend, called on *)
(* a reading series at clock value now.  The trend arrows are named:       *)
(* "rapidly_rising", "rising", "stable", "falling", "rapidly_falling".     *)

Abs(x) == IF x < 0 THEN 0 - x ELSE x

\* a faulty variant of getCurrentGlucoseValue: the window is 5 minutes
\* inclusive
getCurrentGlucoseValueInclusive(glucoseReadings, now) ==
    LET found == { k \in 1..Len(glucoseReadings) :
                     Abs(parseISO(glucoseReadings[k].timestamp) - now) <= 5 }
    IN  IF found = {} THEN 120 * Milli
        ELSE LET first == CHOOSE k \in found : \A j \in found : k <= j
             IN  IF glucoseReadings[first].glucoseValue = 0 THEN 120 * Milli
                 ELSE glucoseReadings[first].glucoseValue

\* getCurrentGlucoseValue(glucoseReadings): find gives the first reading of
\* the list less than 5 minutes from now; currentReading?.glucoseValue || 120
getCurrentGlucoseValue(glucoseReadings, now) ==
    LET found == { k \in 1..Len(glucoseReadings) :
                     Abs(parseISO(glucoseReadings[k].timestamp) - now) < 5 }
    IN  IF found = {} THEN 120 * Milli
        ELSE LET first == CHOOSE k \in found : \A j \in found : k <= j
             IN  IF glucoseReadings[first].glucoseValue = 0 THEN 120 * Milli
                 ELSE glucoseReadings[first].glucoseValue

RECURSIVE Filter(_, _, _)
\* Array.prototype.filter with the predicate of calculateTrend: at or
\* before now and less than 15 minutes old; the order of the list is kept
Filter(glucoseReadings, k, now) ==
    IF k > Len(glucoseReadings) THEN << >>
    ELSE LET readingTime == parseISO(glucoseReadings[k].timestamp)
             rest == Filter(glucoseReadings, k + 1, now)
         IN  IF readingTime <= now /\ readingTime > now - 15
             THEN << glucoseReadings[k] >> \o rest
             ELSE rest

RECURSIVE SortAscending(_)
\* Array.prototype.sort((a, b) => time(a) - time(b)): ascending by
\* timestamp, readings of equal timestamp in their order in the list
SortAscending(readings) ==
    IF readings = << >> THEN << >>
    ELSE LET earliest ==
                 CHOOSE k \in 1..Len(readings) :
                     \A j \in 1..Len(readings) :
                         \/ parseISO(readings[k].timestamp) < parseISO(readings[j].timestamp)
                         \/ /\ parseISO(readings[k].timestamp) = parseISO(readings[j].timestamp)
                            /\ k <= j
         IN  << readings[earliest] >>
                 \o SortAscending(SubSeq(readings, 1, earliest - 1)
                                      \o SubSeq(readings, earliest + 1, Len(readings)))

\* the if chain on rate = (latest - previous) / 15; change15 is the change
\* over the 15 minutes, latest - previous, in Milli
Arrow(change15) ==
    IF change15 > 15 * 2 * Milli THEN "rapidly_rising"
    ELSE IF change15 > 15 * Milli THEN "rising"
    ELSE IF change15 > 0 - 15 * Milli THEN "stable"
    ELSE IF change15 > 0 - 15 * 2 * Milli THEN "falling"
    ELSE "rapidly_falling"

\* a faulty variant of calculateTrend: the recent readings are not sorted
calculateTrendUnsorted(glucoseReadings, now) ==
    LET recent == Filter(glucoseReadings, 1, now)
    IN  IF Len(recent) < 3 THEN "stable"
        ELSE Arrow(recent[Len(recent)].glucoseValue - recent[1].glucoseValue)

\* a faulty variant of calculateTrend: two recent readings are enough
calculateTrendFromTwo(glucoseReadings, now) ==
    LET recent == SortAscending(Filter(glucoseReadings, 1, now))
    IN  IF Len(recent) < 2 THEN "stable"
        ELSE Arrow(recent[Len(recent)].glucoseValue - recent[1].glucoseValue)

\* calculateTrend(glucoseReadings)
calculateTrend(glucoseReadings, now) ==
    LET recent == SortAscending(Filter(glucoseReadings, 1, now))
    IN  IF Len(recent) < 3 THEN "stable"
        ELSE Arrow(recent[Len(recent)].glucoseValue - recent[1].glucoseValue)

\* minutes from now of the readings of an input series, and their values in
\* mg/dL
ReadingOffsets == { 0 - 15, 0 - 14, 0 - 4, 0, 4, 5 }

ReadingValues == { 100, 115, 130, 131 }

\* a reading of the default patient at clock value time
Reading(time, value, now) ==
    [ id |-> << DEFAULT_PATIENT.id, toISOString(time) >>,
      patientId |-> DEFAULT_PATIENT.id,
      timestamp |-> toISOString(time),
      glucoseValue |-> value * Milli,
      isPredicted |-> TRUE,
      calculationTimestamp |-> toISOString(now) ]

\* the series the next readout is called on
InputSeries == IF lastCall.fn = "none" THEN << >> ELSE lastCall.readings

\* the caller's series gets one more reading, at an instant it does not
\* hold yet, anywhere in the list
AppendReading ==
    /\ lastCall.fn \in {"none", "series", "getCurrentGlucoseValue", "calculateTrend"}
    /\ Len(InputSeries) < MaxReadings
    /\ \E offset \in ReadingOffsets, value \in ReadingValues :
          /\ \A k \in 1..Len(InputSeries) :
                InputSeries[k].timestamp # toISOString(clock + offset)
          /\ lastCall' = [ fn |-> "series",
                           readings |-> Append(InputSeries,
                                               Reading(clock + offset, value, clock)) ]
    /\ UNCHANGED << clock, engine, noiseLog, appVars >>

Call_getCurrentGlucoseValue ==
    /\ lastCall.fn \in {"none", "series", "calculateTrend"}
    /\ lastCall' = [ fn |-> "getCurrentGlucoseValue",
                     readings |-> InputSeries,
                     now |-> clock,
                     result |-> getCurrentGlucoseValue(InputSeries, clock) ]
    /\ UNCHANGED << clock, engine, noiseLog, appVars >>

Call_calculateTrend ==
    /\ lastCall.fn \in {"none", "series", "getCurrentGlucoseValue"}
    /\ lastCall' = [ fn |-> "calculateTrend",
                     readings |-> InputSeries,
                     now |-> clock,
                     result |-> calculateTrend(InputSeries, clock) ]
    /\ UNCHANGED << clock, engine, noiseLog, appVars >>

NextReadout ==
    \/ AppendReading
    \/ Call_getCurrentGlucoseValue
    \/ Call_calculateTrend

SpecReadout == Init /\ [][NextReadout]_vars

--------------------------------------------------------------------------
(* simulateGlucoseProfile run pass by pass: the state of a call is its     *)
(* options, the results pushed so far, and what each treatment added to    *)
(* glucoseChange in the last pass and in the pass before it.               *)

\* minutes from now of the treatments handed to a call: long past every
\* window, 4.5 hours ago, 3 minutes ago, now, in half an hour
TreatmentOffsets == { 0 - 1500, 0 - 270, 0 - 3, 0, 30 }

\* the treatments a call may get at clock value now
ProfileTreatments(now) ==
    UNION { { TreatmentRow("meal", now + o, "meal", 60, Null, Null, NoString, Null),
              TreatmentRow("rapid", now + o, "rapid_insulin", Null, 4, Null, NoString, Null),
              TreatmentRow("correction", now + o, "correction", Null, 2, Null, NoString, Null),
              TreatmentRow("long", now + o, "long_insulin", Null, Null, 20, NoString, Null),
              TreatmentRow("light", now + o, "exercise", Null, Null, Null, "light", 30),
              TreatmentRow("moderate", now + o, "exercise", Null, Null, Null, "moderate", 30),
              TreatmentRow("intense", now + o, "exercise", Null, Null, Null, "intense", 45) }
            : o \in TreatmentOffsets }

\* lists of two treatments logged at the same minute, in either order, and
\* of the same treatment logged twice
ProfilePairs(now) ==
    LET logged == { TreatmentRow("meal", now, "meal", 60, Null, Null, NoString, Null),
                    TreatmentRow("rapid", now, "rapid_insulin", Null, 4, Null, NoString, Null),
                    TreatmentRow("moderate", now, "exercise", Null, Null, Null, "moderate", 30) }
    IN  [ 1..2 -> logged ]

ProfileInputs(now) ==
    UNION { [ 1..n -> ProfileTreatments(now) ] : n \in 0..MaxProfileTreatments }
        \cup ProfilePairs(now)

\* simulateGlucoseProfile(options) is called: nothing pushed yet
Call_simulateGlucoseProfile ==
    /\ lastCall.fn = "none"
    /\ \E treatments \in ProfileInputs(clock) :
          lastCall' = [ fn |-> "simulateGlucoseProfile",
                        options |-> SimulationOptions(DEFAULT_PATIENT, treatments, clock),
                        results |-> << >>,
                        changes |-> << >>,
                        before |-> << >> ]
    /\ UNCHANGED << clock, engine, noiseLog, appVars >>

\* one pass of the main loop of simulateGlucoseProfile
LoopStep ==
    /\ lastCall.fn = "simulateGlucoseProfile"
    /\ Len(lastCall.results)
           <= (lastCall.options.durationHours * 60) \div lastCall.options.intervalMinutes
    /\ LET options == lastCall.options
           i == Len(lastCall.results)
       IN  lastCall' = [ lastCall EXCEPT
                           !.results = LoopPass(options, lastCall.results),
                           !.changes = [ k \in 1..Len(options.treatments) |->
                                           TreatmentChange(options.treatments[k],
                                                           IntervalTime(options, i),
                                                           options.patient) ],
                           !.before = lastCall.changes ]
    /\ UNCHANGED << clock, engine, noiseLog, appVars >>

\* the call returns its results
ReturnResults ==
    /\ lastCall.fn = "simulateGlucoseProfile"
    /\ Len(lastCall.results)
           > (lastCall.options.durationHours * 60) \div lastCall.options.intervalMinutes
    /\ lastCall' = NoCall
    /\ UNCHANGED << clock, engine, noiseLog, appVars >>

NextProfile ==
    \/ Tick
    \/ Call_simulateGlucoseProfile
    \/ LoopStep
    \/ ReturnResults

SpecProfile == Init /\ [][NextProfile]_vars

--------------------------------------------------------------------------
(* Claims about the store and the screens (Spec).                          *)

\* C7: when saveGlucoseReadings completes, the stored predicted readings of
\* the patient are exactly the series it was given; no reading of an
\* earlier series remains.  (Runs in which nothing raised inside the
\* engine.)
C7_SaveReplacesSeries ==
    [][ \A t \in Tasks :
          (~ audit.raised /\ task[t].sim = "running" /\ task'[t].sim = "saved")
              => glucose_readings' = ToSet(task[t].newReadings) ]_vars

\* C8: a reader that calls getGlucoseReadings while saveGlucoseReadings runs
\* never sees a partial series: what it reads is a complete series that was
\* handed to the store (or nothing, when nothing is stored).
C8_ReaderSeesCompleteSeries ==
    chart.loaded =>
        \/ chart.glucoseReadings = << >>
        \/ \E s \in audit.submitted :
              chart.glucoseReadings
                  = getGlucoseReadings(ToSet(s), DEFAULT_PATIENT.id, 288)

\* C9: two overlapping runSimulation calls do not interleave their writes:
\* once both have saved, the store holds exactly one complete series that
\* was handed to it (that of the last caller), with no reading of another.
\* (Runs in which nothing raised inside the engine.)
C9_LastCallerWins ==
    (~ audit.raised /\ audit.overlapped /\ \A t \in Tasks : task[t].sim = "saved")
        => \E s \in audit.submitted : glucose_readings = ToSet(s)

\* C10: a treatment save that returns true has run exactly one
\* recomputation of the curve, with a treatment list that contains the
\* treatment just stored.
C10_SaveTriggersOneRecomputation ==
    task["save"].result = "true"
        => /\ task["save"].calcCalls = 1
           /\ \E k \in 1..Len(task["save"].treatmentData) :
                 task["save"].treatmentData[k].id = task["save"].treatment.id

--------------------------------------------------------------------------
(* Claims about the engine (SpecEngine, SpecNoise).                        *)

Returned == engine.pc \in {"resolved", "rejected"}

\* every reading is 5 minutes after the one before, the first is at now
EvenlySpacedFrom(readings, now) ==
    /\ Len(readings) > 0
    /\ readings[1].timestamp = toISOString(now)
    /\ \A k \in 1..(Len(readings) - 1) :
          parseISO(readings[k + 1].timestamp) = parseISO(readings[k].timestamp) + 5

ValuesWithin(readings, low, high) ==
    \A k \in 1..Len(readings) :
        /\ low * Milli <= readings[k].glucoseValue
        /\ readings[k].glucoseValue <= high * Milli

\* C1: calculateGlucoseCurve never rejects: whatever raises inside it, the
\* returned promise resolves with a series.
C1_NeverRejects == engine.pc # "rejected"

\* C2: on the normal path calculateGlucoseCurve returns exactly 288 readings.
C2_NormalPathReturns288 ==
    (engine.pc = "resolved" /\ engine.path = "normal")
        => Len(engine.readings) = 288

\* C3: every glucoseValue of a returned series, normal or fallback, lies in
\* [40, 400] mg/dL.
C3_ValuesInRange ==
    engine.pc = "resolved" => ValuesWithin(engine.readings, 40, 400)

\* C3 witness: a normal-path series for a treatment list that drives the
\* noisy value to the upper end of the range, where the clamp cuts it.
C3_Witness ==
    /\ engine.pc = "resolved" /\ engine.path = "normal"
    /\ Len(engine.treatments) > 0
    /\ \E k \in 1..Len(engine.readings) :
          engine.readings[k].glucoseValue = 400 * Milli

\* C4: in every returned series the first timestamp is the reference
\* instant now and each following timestamp is exactly 5 minutes later.
C4_TimestampsFromNow ==
    engine.pc = "resolved" => EvenlySpacedFrom(engine.readings, engine.now)

\* C4 witness: a returned normal-path series after the clock has moved on,
\* whose timestamps run over midnight.
C4_Witness ==
    /\ engine.pc = "resolved" /\ engine.path = "normal"
    /\ engine.now > InitialClock
    /\ engine.readings[Len(engine.readings)].timestamp[1]
          > engine.readings[1].timestamp[1]

\* C5: two calls of generateWeeklyNoise with the same (patientId, weekStart)
\* return identical arrays.
C5_NoiseDeterministic ==
    \A i, j \in 1..Len(noiseLog) :
        (noiseLog[i].patientId = noiseLog[j].patientId
            /\ noiseLog[i].weekStart = noiseLog[j].weekStart)
        => noiseLog[i].result = noiseLog[j].result

\* C6: when the try block raises, calculateGlucoseCurve returns the fallback
\* series: 288 readings from now, 5 minutes apart, every value in [70, 200].
C6_ErrorYieldsFallbackSeries ==
    (Returned /\ engine.path = "fallback")
        => /\ engine.pc = "resolved"
           /\ Len(engine.readings) = 288
           /\ EvenlySpacedFrom(engine.readings, engine.now)
           /\ ValuesWithin(engine.readings, 70, 200)

\* what holds of the fallback series whenever one is returned
FallbackSeriesShape ==
    (engine.pc = "resolved" /\ engine.path = "fallback")
        => /\ Len(engine.readings) = 288
           /\ EvenlySpacedFrom(engine.readings, engine.now)
           /\ ValuesWithin(engine.readings, 70, 200)

--------------------------------------------------------------------------
(* Claims about DatabaseService called directly (SpecStore).               *)

SaveFns == { "savePatient", "saveTreatment", "saveGlucoseReadings" }

ReadFns == { "getPatient", "getTreatments", "getGlucoseReadings" }

\* C11 as stated: every persistence failure, on a save operation and on a
\* read operation, reaches the caller as an explicit failure (the promise
\* rejects), never as a regular result.
C11_EveryFailureSurfaces ==
    (lastCall.fn \in SaveFns \cup ReadFns /\ lastCall.failed)
        => lastCall.outcome = "raised"

\* C11 amended: a persistence failure of a save operation, and a call of any
\* of the six operations while the database is not open, reaches the caller
\* as an explicit failure; a failing query of a read operation on an open
\* database is returned as the empty result (null, []).
C11_SaveFailuresSurface ==
    /\ (lastCall.fn \in SaveFns /\ lastCall.failed) => lastCall.outcome = "raised"
    /\ (lastCall.fn \in SaveFns \cup ReadFns /\ database.db = "null")
           => lastCall.outcome = "raised"
    /\ (lastCall.fn \in ReadFns /\ lastCall.failed /\ database.db # "null")
           => /\ lastCall.outcome = "returned"
              /\ lastCall.value = IF lastCall.fn = "getPatient" THEN "null" ELSE << >>

\* C11 witness: saveTreatment was called on an open database that holds a
\* treatment, and its INSERT failed.
C11_Witness ==
    /\ lastCall.fn = "saveTreatment"
    /\ lastCall.failed
    /\ database.db = "open"
    /\ treatmentsTable # {}

--------------------------------------------------------------------------
(* Claims about the treatments handed to the engine (SpecSource).          *)

\* the effect window of a stored treatment, in minutes
EffectWindow(treatment) ==
    CASE treatment.type = "meal" -> 240
      [] treatment.type \in {"rapid_insulin", "correction"} -> 300
      [] treatment.type = "long_insulin" -> 1440
      [] OTHER -> OrZero(treatment.exerciseDuration) + 180

\* the treatment is still within its effect window at now
StillActive(treatment, now) ==
    /\ now - parseISO(treatment.timestamp) >= 0
    /\ now - parseISO(treatment.timestamp) <= EffectWindow(treatment)

\* C12: at every invocation of calculateGlucoseCurve the list supplied holds
\* every stored treatment of the patient that is still within its effect
\* window at now, and the series computed from the supplied list equals the
\* series computed from all stored treatments.
C12_SourceSuppliesActiveTreatments ==
    lastCall.fn = "calculateGlucoseCurve"
        => /\ \A k \in 1..Len(lastCall.stored) :
                 StillActive(lastCall.stored[k], lastCall.now)
                     => lastCall.stored[k] \in ToSet(lastCall.supplied)
           /\ simulateGlucoseProfile(
                  SimulationOptions(DEFAULT_PATIENT, lastCall.supplied, lastCall.now))
                = simulateGlucoseProfile(
                      SimulationOptions(DEFAULT_PATIENT, lastCall.stored, lastCall.now))

--------------------------------------------------------------------------
(* Claims about the readout functions (SpecReadout).                       *)

\* the readings of the last call that are less than 5 minutes from now
NearNow ==
    { k \in 1..Len(lastCall.readings) :
        Abs(parseISO(lastCall.readings[k].timestamp) - lastCall.now) < 5 }

\* the readings of the last call at or before now and less than 15 minutes
\* old
Qualifying ==
    { k \in 1..Len(lastCall.readings) :
        /\ parseISO(lastCall.readings[k].timestamp) <= lastCall.now
        /\ parseISO(lastCall.readings[k].timestamp) > lastCall.now - 15 }

\* C13: getCurrentGlucoseValue returns the value of a reading whose
\* timestamp is within 5 minutes of now, and the default 120 when the series
\* is empty or no reading qualifies.
C13_CurrentValue ==
    lastCall.fn = "getCurrentGlucoseValue"
        => IF NearNow = {}
           THEN lastCall.result = 120 * Milli
           ELSE \E k \in NearNow :
                   lastCall.result = lastCall.readings[k].glucoseValue

\* C13 witness: a call on a series that holds a reading exactly 5 minutes
\* from now and none nearer, which returns the default.
C13_Witness ==
    /\ lastCall.fn = "getCurrentGlucoseValue"
    /\ NearNow = {}
    /\ \E k \in 1..Len(lastCall.readings) :
          /\ parseISO(lastCall.readings[k].timestamp) = lastCall.now + 5
          /\ lastCall.readings[k].glucoseValue # 120 * Milli

\* C14: calculateTrend returns "stable" whenever fewer than 3 readings are
\* at or before now and within the last 15 minutes, whatever their values.
C14_TrendNeedsThree ==
    (lastCall.fn = "calculateTrend" /\ Cardinality(Qualifying) < 3)
        => lastCall.result = "stable"

\* C14 witness: a call with exactly 2 qualifying readings whose values are
\* 31 mg/dL apart, and a third reading that does not qualify.
C14_Witness ==
    /\ lastCall.fn = "calculateTrend"
    /\ Len(lastCall.readings) = 3
    /\ Cardinality(Qualifying) = 2
    /\ \E j, k \in Qualifying :
          lastCall.readings[k].glucoseValue
              = lastCall.readings[j].glucoseValue + 31 * Milli

\* the classification of C15 on the change over the 15 minutes (15 times
\* the rate), in Milli
TrendOf(change15) ==
    CASE change15 > 30 * Milli -> "rapidly_rising"
      [] change15 <= 30 * Milli /\ change15 > 15 * Milli -> "rising"
      [] change15 <= 15 * Milli /\ change15 > 0 - 15 * Milli -> "stable"
      [] change15 <= 0 - 15 * Milli /\ change15 > 0 - 30 * Milli -> "falling"
      [] OTHER -> "rapidly_falling"

\* C15: with at least 3 qualifying readings, calculateTrend classifies the
\* rate (value of the latest qualifying reading - value of the earliest) /
\* 15, latest and earliest by timestamp whatever the order of the list:
\* above 2 rapidly rising, else above 1 rising, else above -1 stable, else
\* above -2 falling, else rapidly falling.
C15_TrendClassifies ==
    (lastCall.fn = "calculateTrend" /\ Cardinality(Qualifying) >= 3)
        => \E e, l \in Qualifying :
              /\ \A k \in Qualifying :
                    /\ parseISO(lastCall.readings[e].timestamp)
                           <= parseISO(lastCall.readings[k].timestamp)
                    /\ parseISO(lastCall.readings[k].timestamp)
                           <= parseISO(lastCall.readings[l].timestamp)
              /\ lastCall.result
                     = TrendOf(lastCall.readings[l].glucoseValue
                                   - lastCall.readings[e].glucoseValue)

\* C15 witness: a call on a list that is not in time order (its first
\* reading is the latest), with 3 qualifying readings and a rate of exactly
\* 2, which is "rising".
C15_Witness ==
    /\ lastCall.fn = "calculateTrend"
    /\ Cardinality(Qualifying) = 3
    /\ parseISO(lastCall.readings[1].timestamp) = lastCall.now
    /\ \E e \in Qualifying :
          /\ parseISO(lastCall.readings[e].timestamp) = lastCall.now - 14
          /\ lastCall.readings[1].glucoseValue
                 = lastCall.readings[e].glucoseValue + 30 * Milli
    /\ lastCall.result = "rising"

--------------------------------------------------------------------------
(* Claims about the effect models and the loop (SpecProfile).              *)

\* a pass of the loop has run in the call
InPass == lastCall.fn = "simulateGlucoseProfile" /\ Len(lastCall.results) > 0

\* two passes have run
InSecondPass == InPass /\ Len(lastCall.results) > 1

\* minutes from treatment k to the grid point of the last pass
Elapsed(k) ==
    lastCall.results[Len(lastCall.results)].timestamp
        - lastCall.options.treatments[k].timestamp

\* the treatments of the call of the given types
OfType(types) ==
    { k \in 1..Len(lastCall.options.treatments) :
        lastCall.options.treatments[k].type \in types }

\* (carbs / carbRatio) * ISF * fraction(t) * 0.05 in Milli, fraction rising
\* linearly 0 to 1 on [0, 60] and falling linearly 1 to 0 on [60, 240]
MealFormula(carbs, patient, t) ==
    LET num == IF t <= 60 THEN t ELSE 240 - t
        den == IF t <= 60 THEN 60 ELSE 180
    IN  (carbs * patient.insulinSensitivityFactor * Milli * num)
            \div (patient.carbRatio * den * 20)

\* C16: what a meal adds at a grid point is zero before the meal, strictly
\* increasing while the elapsed time goes from 0 to 60 minutes, strictly
\* decreasing from 60 to 240 minutes, zero after 240 minutes, and in the
\* window (carbs / carbRatio) * ISF * fraction(t) * 0.05 (to the last digit
\* of the fixed-point value).
C16_MealShape ==
    InPass =>
        \A k \in OfType({"meal"}) :
            LET t == Elapsed(k)
                carbs == lastCall.options.treatments[k].carbohydrates
            IN  /\ t < 0 => lastCall.changes[k] = 0
                /\ t > 240 => lastCall.changes[k] = 0
                /\ (t >= 0 /\ t <= 240)
                       => Abs(lastCall.changes[k]
                                - MealFormula(carbs, lastCall.options.patient, t)) <= 1
                /\ (InSecondPass /\ t - 5 >= 0 /\ t <= 60)
                       => lastCall.changes[k] > lastCall.before[k]
                /\ (InSecondPass /\ t - 5 >= 60 /\ t <= 240)
                       => lastCall.changes[k] < lastCall.before[k]

\* C16 witness: a pass on the falling side of a meal eaten 3 minutes before
\* now, whose grid points do not fall on the peak.
C16_Witness ==
    /\ InSecondPass
    /\ \E k \in OfType({"meal"}) :
          /\ Elapsed(k) = 68
          /\ lastCall.changes[k] > 0
          /\ lastCall.changes[k] < lastCall.before[k]

\* minutes of elapsed time that count as near 55
NearPeak == 45..65

\* C17: what a rapid-insulin dose adds is zero at elapsed time 0, negative
\* inside the window, most negative near 55 minutes (no grid point away
\* from there is as negative as the one at 55 minutes), and zero beyond 300
\* minutes.
C17_RapidInsulinShape ==
    InPass =>
        \A k \in OfType({"rapid_insulin", "correction"}) :
            LET t == Elapsed(k)
                treatment == lastCall.options.treatments[k]
            IN  /\ t = 0 => lastCall.changes[k] = 0
                /\ (t > 0 /\ t <= 300) => lastCall.changes[k] < 0
                /\ t > 300 => lastCall.changes[k] = 0
                /\ (t >= 0 /\ t <= 300 /\ t \notin NearPeak)
                       => lastCall.changes[k]
                              > TreatmentChange(treatment, treatment.timestamp + 55,
                                                lastCall.options.patient)

\* intensity multiplier times 2: light 0.5, moderate 1.0, intense 2.0
Multiplier2(exerciseType) ==
    CASE exerciseType = "light" -> 1
      [] exerciseType = "intense" -> 4
      [] OTHER -> 2

\* C18: what an exercise of duration D adds is, during [0, D], a fixed
\* negative delta proportional to the intensity multiplier (0.5 mg/dL times
\* the multiplier); on (D, D + 180] a negative delta whose magnitude
\* strictly decreases with the elapsed time; zero after D + 180 minutes.
C18_ExerciseShape ==
    InPass =>
        \A k \in OfType({"exercise"}) :
            LET t == Elapsed(k)
                D == lastCall.options.treatments[k].exerciseDuration
                type == lastCall.options.treatments[k].exerciseType
            IN  /\ (t >= 0 /\ t <= D)
                       => 4 * lastCall.changes[k] = 0 - Multiplier2(type) * Milli
                /\ (t > D /\ t <= D + 180) => lastCall.changes[k] < 0
                /\ (InSecondPass /\ t - 5 > D /\ t <= D + 180)
                       => lastCall.changes[k] > lastCall.before[k]
                /\ t > D + 180 => lastCall.changes[k] = 0

\* C18 witness: a pass late in the decay of a light exercise, where the
\* delta is smallest.
C18_Witness ==
    /\ InSecondPass
    /\ \E k \in OfType({"exercise"}) :
          /\ lastCall.options.treatments[k].exerciseType = "light"
          /\ Elapsed(k) = lastCall.options.treatments[k].exerciseDuration + 180
          /\ lastCall.changes[k] < 0
          /\ lastCall.changes[k] > lastCall.before[k]

\* the window of a treatment of the call, in minutes
WindowOf(treatment) ==
    CASE treatment.type = "meal" -> 240
      [] treatment.type \in {"rapid_insulin", "correction"} -> 300
      [] treatment.type = "long_insulin" -> 1440
      [] OTHER -> treatment.exerciseDuration + 180

\* C19: a treatment of any type adds exactly 0 to the glucose change of a
\* grid point when the elapsed time since the treatment is negative or
\* greater than its window; a treatment whose window elapsed before now adds
\* 0 at every grid point.
C19_ZeroOutsideWindow ==
    InPass =>
        \A k \in 1..Len(lastCall.options.treatments) :
            (Elapsed(k) < 0 \/ Elapsed(k) > WindowOf(lastCall.options.treatments[k]))
                => lastCall.changes[k] = 0

\* C19 witness: the first grid point of a call for a treatment that lies
\* half an hour in the future.
C19_Witness ==
    /\ InPass
    /\ Len(lastCall.results) = 1
    /\ \E k \in 1..Len(lastCall.options.treatments) :
          /\ Elapsed(k) = 0 - 30
          /\ lastCall.changes[k] = 0

\* C20 as stated: with an empty treatment list every value of the series
\* before noise stays within 100 to 140 mg/dL.
C20_BaselineBand ==
    (InPass /\ lastCall.options.treatments = << >>)
        => \A i \in 1..Len(lastCall.results) :
              /\ 100 * Milli <= lastCall.results[i].glucoseValue
              /\ lastCall.results[i].glucoseValue <= 140 * Milli

\* C20 amended: with an empty treatment list the values before noise rise
\* from the 120 baseline by 2/12 mg/dL at every grid point (2 mg/dL per
\* hour) and stay within 120 to 169 mg/dL over the 24 hours.
C20_BaselineDrift ==
    (InPass /\ lastCall.options.treatments = << >>)
        => \A i \in 1..Len(lastCall.results) :
              /\ lastCall.results[i].glucoseValue
                     = 120 * Milli + i * ((2 * Milli) \div 12)
              /\ 120 * Milli <= lastCall.results[i].glucoseValue
              /\ lastCall.results[i].glucoseValue <= 169 * Milli

\* C20 witness: the last pass of a call with no treatment.
C20_Witness ==
    /\ InPass
    /\ lastCall.options.treatments = << >>
    /\ Len(lastCall.results) = 289
    /\ lastCall.results[289].glucoseValue > 140 * Milli

\* the permutations of 1..n
Orders(n) ==
    { p \in [ 1..n -> 1..n ] : \A i, j \in 1..n : i # j => p[i] # p[j] }

\* the options with the treatment list reordered by p
Reordered(options, p) ==
    [ options EXCEPT !.treatments = [ k \in 1..Len(@) |-> @[p[k]] ] ]

RECURSIVE SumOf(_, _)
\* the sum of the elements of a sequence from element k on
SumOf(seq, k) == IF k > Len(seq) THEN 0 ELSE seq[k] + SumOf(seq, k + 1)

\* the value the pass before left (the baseline before the first pass)
LevelBefore ==
    IF Len(lastCall.results) = 1 THEN lastCall.options.baselineGlucose * Milli
    ELSE lastCall.results[Len(lastCall.results) - 1].glucoseValue

--------------------------------------------------------------------------
(* More claims about the store and the screens (Spec).                     *)

\* C22: the engine only reads treatments.  No step deletes or changes a
\* stored treatment; a step in which calculateGlucoseCurve runs (normal or
\* fallback path), and every later step of that runSimulation, leaves the
\* stored treatments as they are and the caller's list as it was passed in,
\* object by object.
C22_EngineOnlyReads ==
    [][ /\ treatmentsTable \subseteq treatmentsTable'
        /\ \A t \in Tasks :
              /\ task'[t].calcCalls > task[t].calcCalls
                    => /\ treatmentsTable' = treatmentsTable
                       /\ task'[t].treatmentData
                              = IF t = "home" THEN task[t].treatmentData
                                ELSE getTreatments(treatmentsTable, DEFAULT_PATIENT.id,
                                                   10, 4, clock)
              /\ task[t].pc \in {"delete", "insert"}
                    => /\ task'[t].treatmentData = task[t].treatmentData
                       /\ task'[t] # task[t] => treatmentsTable' = treatmentsTable ]_vars

\* C22 witness: initializeApp has stored a series that the engine computed
\* on its fallback path, a treatment save has stored one computed on the
\* normal path, and the list passed to the engine still holds the stored
\* treatment.
C22_Witness ==
    /\ task["home"].sim = "saved" /\ task["home"].path = "fallback"
    /\ task["save"].sim = "saved" /\ task["save"].path = "normal"
    /\ Len(task["save"].treatmentData) > 0
    /\ \A k \in 1..Len(task["save"].treatmentData) :
          task["save"].treatmentData[k] \in treatmentsTable

--------------------------------------------------------------------------
(* More claims about the engine (SpecEngine).                              *)

\* clamp to [40, 400] mg/dL
Clamp(x) == Max(40 * Milli, Min(400 * Milli, x))

\* drift plus the sum of the deltas of the treatments at grid point i
DriftAndDeltas(options, i) ==
    (2 * Milli) \div 12
        + SumOf([ k \in 1..Len(options.treatments) |->
                    TreatmentChange(options.treatments[k], IntervalTime(options, i),
                                    options.patient) ], 1)

RECURSIVE Levels(_, _, _, _)
\* the levels of the n grid points from i on, level being the one before:
\* level_i = clamp(level_{i-1} + drift + sum of deltas).  The fold is split
\* in halves to keep the evaluation depth small.
Levels(options, level, i, n) ==
    IF n = 0 THEN << >>
    ELSE IF n = 1 THEN << Clamp(level + DriftAndDeltas(options, i)) >>
    ELSE LET firstHalf == Levels(options, level, i, n \div 2)
         IN  IF Len(firstHalf) >= 0
             THEN firstHalf \o Levels(options, firstHalf[Len(firstHalf)],
                                      i + n \div 2, n - n \div 2)
             ELSE firstHalf

\* the levels of the call the engine has resolved
EngineLevels ==
    Levels(SimulationOptions(DEFAULT_PATIENT, engine.treatments, engine.now),
           120 * Milli, 0, Len(engine.readings))

\* C23: on the normal path the curve is a sequential fold.  With level_{-1}
\* = 120, level_i = clamp[40,400](level_{i-1} + drift + sum of the active
\* treatment deltas), and the value emitted for grid point i is
\* clamp[40,400](level_i + level_i * noise[i mod 2016]); the level carried on
\* is the clamped level before noise, so the levels are the same whatever
\* the noise array is.
C23_SequentialFold ==
    (engine.pc = "resolved" /\ engine.path = "normal")
        => \E draw \in 0..MaxDraw :
              LET noiseArray == generateWeeklyNoise(DEFAULT_PATIENT.id,
                                    getWeekStart(engine.now), generatePerlinNoise(draw))
                  levels == EngineLevels
              IN  \A k \in 1..Len(engine.readings) :
                     engine.readings[k].glucoseValue
                         = Clamp(levels[k]
                                   + (levels[k] * noiseArray[((k - 1) % NoiseLength) + 1])
                                         \div Frac)

\* C23 witness: a normal-path series in which the level sits on the upper
\* clamp at a grid point where the noise pulls the emitted value below it,
\* and is still on the clamp at the next grid point.
C23_Witness ==
    /\ engine.pc = "resolved" /\ engine.path = "normal"
    /\ Len(engine.treatments) > 0
    /\ LET levels == EngineLevels
       IN  \E k \in 1..(Len(engine.readings) - 1) :
              /\ levels[k] = 400 * Milli
              /\ engine.readings[k].glucoseValue < 400 * Milli
              /\ levels[k + 1] = 400 * Milli

\* C24: every reading of a series the engine resolves with, which is what
\* runSimulation hands to saveGlucoseReadings, passes the CHECK of the
\* glucose_readings table (20 <= glucose_value <= 600): its INSERT into a
\* table that does not hold its id never fails.
C24_ReadingsPassCheck ==
    engine.pc = "resolved"
        => \A k \in 1..Len(engine.readings) :
              /\ engine.readings[k].glucoseValue # NaN
              /\ ~ InsertReadingFails({}, engine.readings[k])

\* C24 witness: a resolved series that runs from the target range up to the
\* upper clamp.
C24_Witness ==
    /\ engine.pc = "resolved"
    /\ \E k \in 1..Len(engine.readings) : engine.readings[k].glucoseValue >= 400 * Milli
    /\ \E k \in 1..Len(engine.readings) : engine.readings[k].glucoseValue < 180 * Milli

--------------------------------------------------------------------------
(* Claims about whole series in the store (SpecRoundTrip, SpecStore).      *)

\* C25: save/load round trip.  When getGlucoseReadings(patientId, 288) is
\* called after runSimulation has stored its series, with no write in
\* between, it returns exactly the readings of that series: the same
\* timestamps and values, none missing.
C25_RoundTrip ==
    [][ ( /\ lastCall.fn = "runSimulation" /\ lastCall.outcome = "saved"
          /\ lastCall'.fn = "getGlucoseReadings"
          /\ lastCall'.outcome = "returned" /\ ~ lastCall'.failed )
            => ToSet(lastCall'.value) = ToSet(lastCall.newReadings) ]_vars

\* what holds of the round trip: the readings returned are readings of the
\* stored series, all of them when the series has at most 288 (the
\* fallback series), and the latest 288 otherwise (the first reading of a
\* normal-path series, the one at the time of the calculation, is missing)
RoundTripLatest288 ==
    [][ ( /\ lastCall.fn = "runSimulation" /\ lastCall.outcome = "saved"
          /\ lastCall'.fn = "getGlucoseReadings"
          /\ lastCall'.outcome = "returned" /\ ~ lastCall'.failed )
            => LET series == lastCall.newReadings
               IN  ToSet(lastCall'.value)
                       = { series[k] : k \in (Len(series) - Min(288, Len(series)) + 1)
                                               ..Len(series) } ]_vars

\* the predicted readings of the default patient in a table
PredictedRows(table) ==
    { r \in table : r.patientId = DEFAULT_PATIENT.id /\ r.isPredicted }

\* C26: saveGlucoseReadings is all-or-nothing on error: when a call raises,
\* the stored predicted readings of the patient are the same as before the
\* call.
C26_AllOrNothing ==
    [][ ( /\ lastCall'.fn = "saveGlucoseReadings"
          /\ lastCall'.outcome = "raised" )
            => PredictedRows(glucose_readings') = PredictedRows(glucose_readings) ]_vars

--------------------------------------------------------------------------
(* TreatmentInputModal: the form is opened from the home screen, its       *)
(* fields are typed into, and handleSave validates them, builds the        *)
(* treatment and hands it to onSave.  A text is the sequence of its        *)
(* characters; parseFloat and parseInt read it as the language does.       *)

\* how many times a field is changed before the form is closed or reset
MaxEdits == 2

Undefined == "undefined"

DigitValue ==
    ("0" :> 0) @@ ("1" :> 1) @@ ("2" :> 2) @@ ("3" :> 3) @@ ("4" :> 4) @@
    ("5" :> 5) @@ ("6" :> 6) @@ ("7" :> 7) @@ ("8" :> 8) @@ ("9" :> 9)

Digits == DOMAIN DigitValue

\* the text without the characters before position i
From(text, i) == SubSeq(text, i, Len(text))

\* StrWhiteSpace at the start of a text is skipped by parseFloat and parseInt
RECURSIVE SkipWhiteSpace(_)
SkipWhiteSpace(text) ==
    IF text # << >> /\ Head(text) = " " THEN SkipWhiteSpace(Tail(text)) ELSE text

\* String.prototype.trim
RECURSIVE trim(_)
trim(text) ==
    IF text = << >> THEN text
    ELSE IF Head(text) = " " THEN trim(Tail(text))
    ELSE IF text[Len(text)] = " " THEN trim(SubSeq(text, 1, Len(text) - 1))
    ELSE text

\* how many digits the text starts with
RECURSIVE DigitRun(_)
DigitRun(text) ==
    IF text # << >> /\ Head(text) \in Digits THEN 1 + DigitRun(Tail(text)) ELSE 0

\* the number written by the first n characters, all digits
RECURSIVE DigitsValue(_, _)
DigitsValue(text, n) ==
    IF n = 0 THEN 0 ELSE 10 * DigitsValue(text, n - 1) + DigitValue[text[n]]

\* the thousandths written by the digits after a decimal point
Thousandths(text, n) ==
    LET d(i) == IF i <= n THEN DigitValue[text[i]] ELSE 0
    IN  100 * d(1) + 10 * d(2) + d(3)

\* parseFloat(text), in thousandths: white space, a sign, digits, a point
\* and digits; what follows is ignored; NaN when no digit is found there
parseFloat(text) ==
    LET t == SkipWhiteSpace(text)
        signed == t # << >> /\ Head(t) \in {"-", "+"}
        body == IF signed THEN Tail(t) ELSE t
        whole == DigitRun(body)
        rest == From(body, whole + 1)
        pointed == rest # << >> /\ Head(rest) = "."
        decimals == IF pointed THEN DigitRun(Tail(rest)) ELSE 0
        magnitude == Milli * DigitsValue(body, whole)
                        + (IF pointed THEN Thousandths(Tail(rest), decimals) ELSE 0)
    IN  IF whole = 0 /\ decimals = 0 THEN NaN
        ELSE IF signed /\ Head(t) = "-" THEN 0 - magnitude
        ELSE magnitude

\* parseInt(text), in thousandths: white space, a sign, digits; what follows
\* is ignored; NaN when no digit is found there
parseInt(text) ==
    LET t == SkipWhiteSpace(text)
        signed == t # << >> /\ Head(t) \in {"-", "+"}
        body == IF signed THEN Tail(t) ELSE t
        whole == DigitRun(body)
        magnitude == Milli * DigitsValue(body, whole)
    IN  IF whole = 0 THEN NaN
        ELSE IF signed /\ Head(t) = "-" THEN 0 - magnitude
        ELSE magnitude

\* x <= 0 for a number x: false for NaN
NotAbove0(x) == x # NaN /\ x <= 0

\* !text for a string: true for the empty string only
Falsy(text) == text = << >>

\* what the numeric keyboard and the clipboard put into a text field
Texts ==
    { << >>, << "0" >>, << "4", "5" >>, << "2", ".", "5" >>, << "." >>,
      << "-", "3" >>, << "1", "2", "g" >> }

NoteTexts == { << >>, << " " >>, << "o", "k", " " >> }

TreatmentTypes == { "meal", "rapid_insulin", "long_insulin", "exercise", "correction" }

ExerciseTypes == { "light", "moderate", "intense" }

\* the text fields of the form, and the form each one is shown on
TextFields ==
    [ carbohydrates |-> {"meal"}, rapidInsulin |-> {"rapid_insulin", "correction"},
      longInsulin |-> {"long_insulin"}, exerciseDuration |-> {"exercise"} ]

\* resetForm()
resetForm(form) ==
    [ form EXCEPT !.treatmentType = form.initialType, !.carbohydrates = NoText,
                  !.rapidInsulin = NoText, !.longInsulin = NoText,
                  !.exerciseType = "moderate", !.exerciseDuration = NoText,
                  !.notes = NoText, !.edits = 0 ]

\* handleSave: the 'Validation Error' alert it raises, or "none"
ValidationAlert(form) ==
    IF form.treatmentType = "meal"
          /\ (Falsy(form.carbohydrates) \/ NotAbove0(parseFloat(form.carbohydrates)))
    THEN "Please enter carbohydrates for meals"
    ELSE IF form.treatmentType \in {"rapid_insulin", "correction"}
          /\ (Falsy(form.rapidInsulin) \/ NotAbove0(parseFloat(form.rapidInsulin)))
    THEN "Please enter insulin amount"
    ELSE IF form.treatmentType = "long_insulin"
          /\ (Falsy(form.longInsulin) \/ NotAbove0(parseFloat(form.longInsulin)))
    THEN "Please enter long insulin amount"
    ELSE IF form.treatmentType = "exercise"
          /\ (Falsy(form.exerciseDuration) \/ NotAbove0(parseInt(form.exerciseDuration)))
    THEN "Please enter exercise duration"
    ELSE "none"

\* handleSave: the treatment object it builds, with the keys it assigns
BuildTreatment(form, now) ==
    LET treatment == [ timestamp |-> toISOString(now),
                       type |-> form.treatmentType,
                       notes |-> IF trim(form.notes) = << >> THEN Undefined
                                 ELSE trim(form.notes) ]
    IN  IF form.treatmentType = "meal"
        THEN treatment @@ [ carbohydrates |-> parseFloat(form.carbohydrates) ]
        ELSE IF form.treatmentType \in {"rapid_insulin", "correction"}
        THEN treatment @@ [ rapidInsulin |-> parseFloat(form.rapidInsulin) ]
        ELSE IF form.treatmentType = "long_insulin"
        THEN treatment @@ [ longInsulin |-> parseFloat(form.longInsulin) ]
        ELSE IF form.treatmentType = "exercise"
        THEN treatment @@ [ exerciseType |-> form.exerciseType,
                            exerciseDuration |-> parseInt(form.exerciseDuration) ]
        ELSE treatment

\* what onSave can do: resolve to true or false, or reject
OnSaveOutcomes == { "true", "false", "rejects" }

\* handleSave() from setLoading(true) to the end of finally, with what onSave
\* does when it is called
HandleSave(form, now, onSaveOutcome) ==
    LET started == [ form EXCEPT !.loading = TRUE ]
        alert == ValidationAlert(started)
        treatment == BuildTreatment(started, now)
        success == onSaveOutcome = "true"
        afterTry ==
            IF alert # "none" THEN started
            ELSE IF success THEN [ resetForm(started) EXCEPT !.visible = FALSE ]
            ELSE started
    IN  [ form |-> [ afterTry EXCEPT !.loading = FALSE ],
          trace |-> [ fn |-> "handleSave",
                      typed |-> form,
                      left |-> [ afterTry EXCEPT !.loading = FALSE ],
                      onSaveCalls |-> IF alert = "none" THEN << treatment >> ELSE << >>,
                      onSave |-> IF alert = "none" THEN onSaveOutcome ELSE "not called",
                      alert |-> IF alert # "none" THEN "Validation Error"
                                ELSE IF onSaveOutcome = "rejects" THEN "Error"
                                ELSE IF success THEN "Success"
                                ELSE "none",
                      reset |-> alert = "none" /\ success,
                      closed |-> alert = "none" /\ success ] ]

\* HomeScreen.openTreatmentModal(type), and the effect that follows visible
openTreatmentModal ==
    /\ ~modal.visible
    /\ \E treatmentType \in {"meal", "rapid_insulin", "exercise"} :
          modal' = [ modal EXCEPT !.visible = TRUE, !.initialType = treatmentType,
                                  !.treatmentType = treatmentType ]
    /\ UNCHANGED << clock, engineVars, database, treatmentsTable, glucose_readings,
                    screen, task, chart, audit >>

\* a press on one of the type buttons: setTreatmentType
setTreatmentType ==
    /\ modal.visible
    /\ modal.edits < MaxEdits
    /\ \E type \in TreatmentTypes \ {modal.treatmentType} :
          modal' = [ modal EXCEPT !.treatmentType = type, !.edits = @ + 1 ]
    /\ UNCHANGED << clock, engineVars, database, treatmentsTable, glucose_readings,
                    screen, task, chart, audit >>

\* onChangeText of the text field shown for the selected type
onChangeText ==
    /\ modal.visible
    /\ modal.edits < MaxEdits
    /\ \E field \in DOMAIN TextFields, text \in Texts :
          /\ modal.treatmentType \in TextFields[field]
          /\ text # modal[field]
          /\ modal' = [ modal EXCEPT ![field] = text, !.edits = @ + 1 ]
    /\ UNCHANGED << clock, engineVars, database, treatmentsTable, glucose_readings,
                    screen, task, chart, audit >>

\* onChangeText of the notes field, and a press on an exercise type
setNotes ==
    /\ modal.visible
    /\ modal.edits < MaxEdits
    /\ \/ \E text \in NoteTexts \ {modal.notes} :
             modal' = [ modal EXCEPT !.notes = text, !.edits = @ + 1 ]
       \/ /\ modal.treatmentType = "exercise"
          /\ \E type \in ExerciseTypes \ {modal.exerciseType} :
                modal' = [ modal EXCEPT !.exerciseType = type, !.edits = @ + 1 ]
    /\ UNCHANGED << clock, engineVars, database, treatmentsTable, glucose_readings,
                    screen, task, chart, audit >>

\* a press on 'Log Treatment': handleSave
TreatmentInputModal_handleSave ==
    /\ modal.visible
    /\ ~modal.loading
    /\ \E onSaveOutcome \in OnSaveOutcomes :
          LET run == HandleSave(modal, clock, onSaveOutcome)
          IN  /\ modal' = run.form
              /\ lastCall' = run.trace
    /\ UNCHANGED << clock, engine, noiseLog, database, treatmentsTable,
                    glucose_readings, screen, task, chart, audit >>

\* the close button or the back button: handleClose
handleClose ==
    /\ modal.visible
    /\ modal' = [ resetForm(modal) EXCEPT !.visible = FALSE ]
    /\ UNCHANGED << clock, engineVars, database, treatmentsTable, glucose_readings,
                    screen, task, chart, audit >>

NextModal ==
    \/ openTreatmentModal
    \/ setTreatmentType
    \/ onChangeText
    \/ setNotes
    \/ TreatmentInputModal_handleSave
    \/ handleClose

SpecModal == Init /\ [][NextModal]_vars

--------------------------------------------------------------------------
(* Claims about the handlers of the home screen (Spec, SpecStale).         *)

\* the treatment of the running or last handleTreatmentSave is stored
TreatmentStored ==
    \E r \in treatmentsTable : r.id = task["save"].treatment.id

\* C27 as stated: HomeScreen's handleTreatmentSave returns true only when
\* the treatment was stored and the recomputed series was computed and
\* stored; it does not return true when the recomputation or
\* saveGlucoseReadings failed.
C27_TrueOnlyWhenSeriesStored ==
    (screen.build = "HomeScreen" /\ task["save"].result = "true")
        => /\ TreatmentStored
           /\ task["save"].sim = "saved"

\* C27 amended: handleTreatmentSave returns true when the treatment was
\* stored; on HomeScreen it has then run runSimulation once, which either
\* stored the new series or failed, caught its failure and raised an alert.
C27_TrueMeansTreatmentStored ==
    task["save"].result = "true"
        => /\ TreatmentStored
           /\ screen.build = "HomeScreen"
                 => /\ task["save"].calcCalls = 1
                    /\ task["save"].sim \in {"saved", "failed"}

\* C27 witness: handleTreatmentSave has returned true on HomeScreen although
\* its runSimulation failed.
C27_Witness ==
    /\ screen.build = "HomeScreen"
    /\ task["save"].result = "true"
    /\ task["save"].sim = "failed"
    /\ TreatmentStored

\* a step of initializeApp (mount or pull-to-refresh): no time passes, no
\* treatment is stored, and the handler leaves its trace
InitializeAppStep ==
    /\ clock' = clock
    /\ treatmentsTable' = treatmentsTable
    /\ lastCall'.fn \in {"calculateGlucoseCurve", "initializeApp"}

\* the stored readings were all predicted for instants more than 24 hours ago
HorizonPassed ==
    /\ glucose_readings # {}
    /\ \A r \in glucose_readings :
          IsoLess(r.timestamp, toISOString(clock - MinutesPerDay))

--------------------------------------------------------------------------
(* Claims about the treatment form (SpecModal).                            *)

\* the keys handleSave assigns for every type, and those of each type
CommonKeys == { "timestamp", "type", "notes" }

PayloadKeys(type) ==
    IF type = "meal" THEN { "carbohydrates" }
    ELSE IF type \in {"rapid_insulin", "correction"} THEN { "rapidInsulin" }
    ELSE IF type = "long_insulin" THEN { "longInsulin" }
    ELSE { "exerciseType", "exerciseDuration" }

\* the amount a treatment carries for its type
Amount(treatment) ==
    IF treatment.type = "meal" THEN treatment.carbohydrates
    ELSE IF treatment.type \in {"rapid_insulin", "correction"} THEN treatment.rapidInsulin
    ELSE IF treatment.type = "long_insulin" THEN treatment.longInsulin
    ELSE treatment.exerciseDuration

\* handleSave apart from the amounts it lets through: onSave is called at
\* most once, after the validation raised no alert, with the keys of the
\* selected type only; loading is false at the end; the form is reset and
\* closed only when onSave resolved to true.
HandleSaveShape ==
    lastCall.fn = "handleSave"
        => /\ Len(lastCall.onSaveCalls) <= 1
           /\ \A k \in 1..Len(lastCall.onSaveCalls) :
                 /\ ValidationAlert(lastCall.typed) = "none"
                 /\ DOMAIN lastCall.onSaveCalls[k]
                        = CommonKeys \cup PayloadKeys(lastCall.typed.treatmentType)
           /\ ~lastCall.left.loading
           /\ (lastCall.reset \/ lastCall.closed) => lastCall.onSave = "true"
           /\ lastCall.left = lastCall.typed
                 \/ /\ lastCall.onSave = "true"
                    /\ lastCall.left = [ resetForm(lastCall.typed) EXCEPT !.visible = FALSE ]

\* C29: handleSave calls onSave at most once and only with a positive
\* amount for the selected type (carbohydrates, insulin or duration) and the
\* keys of that type only; loading is false when it finishes; the form is
\* reset and closed only when onSave returned true.
C29_OnSaveOnlyAfterValidation ==
    lastCall.fn = "handleSave"
        => /\ Len(lastCall.onSaveCalls) <= 1
           /\ \A k \in 1..Len(lastCall.onSaveCalls) :
                 /\ Amount(lastCall.onSaveCalls[k]) # NaN
                 /\ Amount(lastCall.onSaveCalls[k]) > 0
                 /\ DOMAIN lastCall.onSaveCalls[k]
                        = CommonKeys \cup PayloadKeys(lastCall.typed.treatmentType)
           /\ ~lastCall.left.loading
           /\ (lastCall.reset \/ lastCall.closed) => lastCall.onSave = "true"

--------------------------------------------------------------------------
(* Claims about the life of DatabaseService (SpecLifecycle).               *)

\* the methods that start with if (!this.db) throw
DataOperations ==
    { "getPatient", "savePatient", "saveTreatment", "getTreatments",
      "saveGlucoseReadings", "getGlucoseReadings" }

\* whenever isInitialized is true the handle is open, the three tables are
\* created and the default patient is stored
InitializedMeansReady ==
    database.isInitialized
        => /\ database.db = "open"
           /\ database.tables = TableNames
           /\ DEFAULT_PATIENT.id \in database.patients

\* a data operation called while the handle is null throws 'Database not
\* initialized', returns no stored data and leaves the tables as they were
NullHandleThrows ==
    [][ (database.db = "null" /\ lastCall' # lastCall /\ lastCall'.fn \in DataOperations)
            => /\ lastCall'.outcome = "raised"
               /\ lastCall'.value = "Database not initialized"
               /\ database' = database
               /\ treatmentsTable' = treatmentsTable
               /\ glucose_readings' = glucose_readings ]_vars

\* C30: over any sequence of initializeDatabase (succeeding or failing),
\* data operations and closeDatabase, isInitialized = true implies that the
\* handle is open and the tables and the default patient exist, and every
\* data operation called while the handle is null throws 'Database not
\* initialized' without reading or writing storage.
C30_DatabaseLifecycle ==
    /\ []InitializedMeansReady
    /\ NullHandleThrows

\* C30 witness: the database was initialized and used, then closed, and a
\* data operation called after that was refused with the tables still
\* holding their rows.
C30_Witness ==
    /\ database.db = "null"
    /\ ~database.isInitialized
    /\ database.tables = TableNames
    /\ treatmentsTable # {}
    /\ lastCall.fn \in DataOperations
    /\ lastCall.outcome = "raised"
    /\ lastCall.value = "Database not initialized"

==========================================================================
